---- MODULE Spec2Model ----
(***************************************************************************)
(* Model of mcl's executor (src/src/mcl/executor.py): script resolution,   *)
(* template rendering and command execution.                               *)
(*                                                                         *)
(* Strings are sequences of one-character strings, so that the regular     *)
(* expression passes of the renderer are scanned character by character.   *)
(***************************************************************************)
EXTENDS Integers, Sequences, FiniteSets, TLC

(***************************************************************************)
(* Bounds of the model.                                                    *)
(***************************************************************************)
\* longest template enumerated for a direct render_script call
MaxLen == 4
\* longest argument list handed to execute
MaxArgs == 3

(***************************************************************************)
(* Characters.                                                             *)
(***************************************************************************)
Digits == {"0", "1", "2", "3", "4", "5", "6", "7", "8", "9"}

Letters == {"a", "b", "c", "d", "e", "f", "g", "h", "i", "j", "k", "l", "m",
            "n", "o", "p", "q", "r", "s", "t", "u", "v", "w", "x", "y", "z",
            "A", "B", "C", "D", "E", "F", "G", "H", "I", "J", "K", "L", "M",
            "N", "O", "P", "Q", "R", "S", "T", "U", "V", "W", "X", "Y", "Z"}

Whitespace == {" ", "\t", "\n", "\r"}

\* \d of the patterns
IsDigit(c) == c \in Digits

\* [A-Za-z_] of _VAR_PATTERN
IsIdentStart(c) == c \in Letters \cup {"_"}

\* [A-Za-z0-9_] of _VAR_PATTERN
IsIdentChar(c) == c \in Letters \cup Digits \cup {"_"}

DigitVal(c) ==
    CASE c = "0" -> 0 [] c = "1" -> 1 [] c = "2" -> 2 [] c = "3" -> 3
      [] c = "4" -> 4 [] c = "5" -> 5 [] c = "6" -> 6 [] c = "7" -> 7
      [] c = "8" -> 8 [] c = "9" -> 9

DigitChar(n) ==
    CASE n = 0 -> "0" [] n = 1 -> "1" [] n = 2 -> "2" [] n = 3 -> "3"
      [] n = 4 -> "4" [] n = 5 -> "5" [] n = 6 -> "6" [] n = 7 -> "7"
      [] n = 8 -> "8" [] n = 9 -> "9"

\* int(match.group(1)): the decimal value of a run of digits
RECURSIVE ToInt(_)
ToInt(ds) ==
    IF ds = <<>> THEN 0
    ELSE 10 * ToInt(SubSeq(ds, 1, Len(ds) - 1)) + DigitVal(ds[Len(ds)])

\* str(n) of a non-negative integer, as in f"${index + 1}"
RECURSIVE IntStr(_)
IntStr(n) ==
    IF n < 10 THEN <<DigitChar(n)>>
    ELSE IntStr(n \div 10) \o <<DigitChar(n % 10)>>

LowerCase == <<"a", "b", "c", "d", "e", "f", "g", "h", "i", "j", "k", "l", "m",
               "n", "o", "p", "q", "r", "s", "t", "u", "v", "w", "x", "y", "z">>

UpperCase == <<"A", "B", "C", "D", "E", "F", "G", "H", "I", "J", "K", "L", "M",
               "N", "O", "P", "Q", "R", "S", "T", "U", "V", "W", "X", "Y", "Z">>

\* ord(c): the code point, by which Python orders strings
Ord(c) ==
    CASE c = "\t" -> 9 [] c = "\n" -> 10 [] c = "\r" -> 13 [] c = " " -> 32
      [] c = "#" -> 35 [] c = "$" -> 36 [] c = "'" -> 39 [] c = "," -> 44
      [] c = "-" -> 45 [] c = "." -> 46 [] c = "?" -> 63 [] c = "_" -> 95
      [] c \in Digits -> 48 + DigitVal(c)
      [] \E k \in 1..26 : UpperCase[k] = c -> 64 + (CHOOSE k \in 1..26 : UpperCase[k] = c)
      [] \E k \in 1..26 : LowerCase[k] = c -> 96 + (CHOOSE k \in 1..26 : LowerCase[k] = c)

(***************************************************************************)
(* Errors.  The code raises ValueError with a message; kind names the      *)
(* message, subject the text the message quotes, options the listing.      *)
(***************************************************************************)
NoError == [type |-> "none", kind |-> "", subject |-> <<>>, options |-> <<>>]

ValueError(kind, subject, options) ==
    [type |-> "ValueError", kind |-> kind, subject |-> subject, options |-> options]

\* args[-1] on an empty list
IndexError == [type |-> "IndexError", kind |-> "list index out of range",
               subject |-> <<>>, options |-> <<>>]

Ok(s) == [ok |-> TRUE, out |-> s, err |-> NoError]

Fail(e) == [ok |-> FALSE, out |-> <<>>, err |-> e]

(***************************************************************************)
(* The patterns.                                                           *)
(***************************************************************************)
\* the patterns without their lookbehind
NotAfterDollar_Ignored(s, i) == TRUE

\* (?<!\$): the character before position i is not a dollar
NotAfterDollar(s, i) == IF i = 1 THEN TRUE ELSE s[i - 1] # "$"

\* _ARG_PATTERN matches at position i
ArgPatternAt(s, i) ==
    /\ s[i] = "$"
    /\ i + 1 <= Len(s)
    /\ IsDigit(s[i + 1])
    /\ NotAfterDollar(s, i)

\* \?\$(\d+), without the lookbehind
OptionalPatternAt_NoLookbehind(s, i) ==
    /\ s[i] = "?"
    /\ i + 2 <= Len(s)
    /\ s[i + 1] = "$"
    /\ IsDigit(s[i + 2])

\* _OPTIONAL_PATTERN matches at position i
OptionalPatternAt(s, i) ==
    /\ s[i] = "?"
    /\ i + 2 <= Len(s)
    /\ s[i + 1] = "$"
    /\ IsDigit(s[i + 2])
    /\ NotAfterDollar(s, i)

\* _VAR_PATTERN matches at position i
VarPatternAt(s, i) ==
    /\ s[i] = "$"
    /\ i + 1 <= Len(s)
    /\ IsIdentStart(s[i + 1])
    /\ NotAfterDollar(s, i)

\* \d+ is greedy: the last position of the run of digits starting at j
RECURSIVE DigitsEnd(_, _)
DigitsEnd(s, j) ==
    IF j + 1 <= Len(s) /\ IsDigit(s[j + 1]) THEN DigitsEnd(s, j + 1) ELSE j

\* [A-Za-z0-9_]* is greedy: the last position of the identifier starting at j
RECURSIVE IdentEnd(_, _)
IdentEnd(s, j) ==
    IF j + 1 <= Len(s) /\ IsIdentChar(s[j + 1]) THEN IdentEnd(s, j + 1) ELSE j

(***************************************************************************)
(* The substitution passes: re.sub scans left to right, replaces each      *)
(* match and resumes after it; a replacement that raises aborts the pass.  *)
(***************************************************************************)
\* repl of _replace_optional
OptionalRepl(index, args) ==
    IF 0 <= index /\ index < Len(args) THEN args[index + 1] ELSE <<>>

RECURSIVE SubOptional(_, _, _, _)
SubOptional(s, args, i, acc) ==
    IF i > Len(s) THEN Ok(acc)
    ELSE IF OptionalPatternAt(s, i)
    THEN LET e == DigitsEnd(s, i + 2)
             index == ToInt(SubSeq(s, i + 2, e)) - 1
         IN  SubOptional(s, args, e + 1, acc \o OptionalRepl(index, args))
    ELSE SubOptional(s, args, i + 1, Append(acc, s[i]))

_replace_optional(command, args) == SubOptional(command, args, 1, <<>>)

\* repl of _replace_positional; a negative index counts from the end of the list
PositionalRepl(index, args) ==
    IF index >= Len(args)
    THEN Fail(ValueError("MissingArgument", IntStr(index + 1), <<>>))
    ELSE IF index >= 0 THEN Ok(args[index + 1])
    ELSE IF Len(args) + index >= 0 THEN Ok(args[Len(args) + index + 1])
    ELSE Fail(IndexError)

RECURSIVE SubPositional(_, _, _, _)
SubPositional(s, args, i, acc) ==
    IF i > Len(s) THEN Ok(acc)
    ELSE IF ArgPatternAt(s, i)
    THEN LET e == DigitsEnd(s, i + 1)
             index == ToInt(SubSeq(s, i + 1, e)) - 1
             r == PositionalRepl(index, args)
         IN  IF r.ok THEN SubPositional(s, args, e + 1, acc \o r.out) ELSE r
    ELSE SubPositional(s, args, i + 1, Append(acc, s[i]))

_replace_positional(command, args) == SubPositional(command, args, 1, <<>>)

\* str(value) of a configuration value: a string, or a non-negative number
StrOf(value) == IF value.t = "str" THEN value.s ELSE IntStr(value.n)

\* name.isdigit()
AllDigits(name) == name # <<>> /\ \A k \in 1..Len(name) : IsDigit(name[k])

\* key in m, for a mapping m (a sequence of [k, v] entries)
HasKey(m, key) == \E k \in 1..Len(m.entries) : m.entries[k].k = key

\* m[key]
Lookup(m, key) == m.entries[CHOOSE k \in 1..Len(m.entries) : m.entries[k].k = key].v

\* an unknown variable rendered as the empty string instead of the error
VarsRepl_EmptyForUnknown(matched, name, vars_dict) ==
    IF AllDigits(name) THEN Ok(matched)
    ELSE IF ~HasKey(vars_dict, name) THEN Ok(<<>>)
    ELSE Ok(StrOf(Lookup(vars_dict, name)))

\* repl of _replace_vars
VarsRepl(matched, name, vars_dict) ==
    IF AllDigits(name) THEN Ok(matched)
    ELSE IF ~HasKey(vars_dict, name)
    THEN Fail(ValueError("UnknownVariable", name, <<>>))
    ELSE Ok(StrOf(Lookup(vars_dict, name)))

RECURSIVE SubVars(_, _, _, _)
SubVars(s, vars_dict, i, acc) ==
    IF i > Len(s) THEN Ok(acc)
    ELSE IF VarPatternAt(s, i)
    THEN LET e == IdentEnd(s, i + 1)
             r == VarsRepl(SubSeq(s, i, e), SubSeq(s, i + 1, e), vars_dict)
         IN  IF r.ok THEN SubVars(s, vars_dict, e + 1, acc \o r.out) ELSE r
    ELSE SubVars(s, vars_dict, i + 1, Append(acc, s[i]))

_replace_vars(command, vars_dict) == SubVars(command, vars_dict, 1, <<>>)

\* str.replace("$$", "$"): leftmost non-overlapping pairs
RECURSIVE ReplaceDollars(_, _, _)
ReplaceDollars(s, i, acc) ==
    IF i > Len(s) THEN acc
    ELSE IF s[i] = "$" /\ i + 1 <= Len(s) /\ s[i + 1] = "$"
    THEN ReplaceDollars(s, i + 2, Append(acc, "$"))
    ELSE ReplaceDollars(s, i + 1, Append(acc, s[i]))

\* the replacement repeated on its own output
_unescape_dollars_Twice(command) ==
    ReplaceDollars(ReplaceDollars(command, 1, <<>>), 1, <<>>)

_unescape_dollars(command) == ReplaceDollars(command, 1, <<>>)

\* str.lstrip()
RECURSIVE LStrip(_)
LStrip(s) ==
    IF s # <<>> /\ s[1] \in Whitespace THEN LStrip(Tail(s)) ELSE s

\* str.rstrip()
RECURSIVE RStrip(_)
RStrip(s) ==
    IF s # <<>> /\ s[Len(s)] \in Whitespace
    THEN RStrip(SubSeq(s, 1, Len(s) - 1)) ELSE s

\* str.strip()
Strip(s) == RStrip(LStrip(s))

\* the test made on raw_step itself, not on raw_step.lstrip()
IsSkipped_NoLstrip(raw_step) ==
    IF raw_step = <<>> THEN TRUE ELSE raw_step[1] = "#"

\* not stripped or stripped.startswith("#")
IsSkipped(raw_step) ==
    LET stripped == LStrip(raw_step)
    IN  IF stripped = <<>> THEN TRUE ELSE stripped[1] = "#"

(***************************************************************************)
(* Configuration values (parsed JSON).  A mapping keeps its entries in     *)
(* insertion order, as a Python dict does.                                 *)
(***************************************************************************)
NStr(s) == [t |-> "str", s |-> s, n |-> 0, items |-> <<>>, entries |-> <<>>]

NInt(n) == [t |-> "int", s |-> <<>>, n |-> n, items |-> <<>>, entries |-> <<>>]

NList(items) == [t |-> "list", s |-> <<>>, n |-> 0, items |-> items, entries |-> <<>>]

NMap(entries) == [t |-> "map", s |-> <<>>, n |-> 0, items |-> <<>>, entries |-> entries]

\* what dict.get returns for an absent key (and a JSON null)
None == [t |-> "none", s |-> <<>>, n |-> 0, items |-> <<>>, entries |-> <<>>]

\* isinstance(x, Mapping)
IsMapping(x) == x.t = "map"

\* m.get(key)
Get(m, key) == IF HasKey(m, key) THEN Lookup(m, key) ELSE None

\* list(m.keys())
Keys(m) == [k \in 1..Len(m.entries) |-> m.entries[k].k]

(***************************************************************************)
(* Ordering and joining of strings.                                        *)
(***************************************************************************)
\* a < b for Python strings: by code point, a proper prefix first
RECURSIVE StrLess(_, _)
StrLess(a, b) ==
    IF b = <<>> THEN FALSE
    ELSE IF a = <<>> THEN TRUE
    ELSE IF a[1] # b[1] THEN Ord(a[1]) < Ord(b[1])
    ELSE StrLess(Tail(a), Tail(b))

\* insert x into the sorted list xs, after the elements not greater than it
RECURSIVE Insert(_, _)
Insert(x, xs) ==
    IF xs = <<>> THEN <<x>>
    ELSE IF StrLess(x, xs[1]) THEN <<x>> \o xs
    ELSE <<xs[1]>> \o Insert(x, Tail(xs))

\* sorted(xs)
RECURSIVE Sorted(_)
Sorted(xs) ==
    IF xs = <<>> THEN <<>>
    ELSE Insert(xs[Len(xs)], Sorted(SubSeq(xs, 1, Len(xs) - 1)))

\* sep.join(xs)
RECURSIVE Join(_, _)
Join(sep, xs) ==
    IF xs = <<>> THEN <<>>
    ELSE IF Len(xs) = 1 THEN xs[1]
    ELSE xs[1] \o sep \o Join(sep, Tail(xs))

_format_path(script_name, fragments) ==
    IF fragments = <<>> THEN script_name
    ELSE script_name \o <<".">> \o Join(<<".">>, fragments)

\* a payload of another type yields no step, and the elements of a sequence
\* that are no strings are left out
_coerce_steps_Lenient(payload, script_name, fragments) ==
    IF payload.t = "str" THEN Ok(<<payload.s>>)
    ELSE IF payload.t = "list"
    THEN Ok([k \in 1..Len(SelectSeq(payload.items, LAMBDA x : x.t = "str")) |->
               SelectSeq(payload.items, LAMBDA x : x.t = "str")[k].s])
    ELSE Ok(<<>>)

\* a string walked as the sequence of its characters
_coerce_steps_SplitString(payload, script_name, fragments) ==
    IF payload.t = "str" THEN Ok([k \in 1..Len(payload.s) |-> <<payload.s[k]>>])
    ELSE IF payload.t = "list"
    THEN IF \A k \in 1..Len(payload.items) : payload.items[k].t = "str"
         THEN Ok([k \in 1..Len(payload.items) |-> payload.items[k].s])
         ELSE Fail(ValueError("MalformedScript",
                              _format_path(script_name, fragments), <<>>))
    ELSE Fail(ValueError("MalformedScript",
                         _format_path(script_name, fragments), <<>>))

_coerce_steps(payload, script_name, fragments) ==
    IF payload.t = "str" THEN Ok(<<payload.s>>)
    ELSE IF payload.t = "list"
    THEN IF \A k \in 1..Len(payload.items) : payload.items[k].t = "str"
         THEN Ok([k \in 1..Len(payload.items) |-> payload.items[k].s])
         ELSE Fail(ValueError("MalformedScript",
                              _format_path(script_name, fragments), <<>>))
    ELSE Fail(ValueError("MalformedScript",
                         _format_path(script_name, fragments), <<>>))

\* the keys listed as the mapping holds them, not sorted
AvailableOptions_Unsorted(node) == Keys(node)

\* the listing of the two resolver errors
AvailableOptions(node) == Sorted(Keys(node))

Available(node) == Join(<<",", " ">>, AvailableOptions(node))

(***************************************************************************)
(* Inputs of the model.                                                    *)
(***************************************************************************)
\* characters of the templates enumerated for a direct render_script call
Alphabet == {"$", "?", "0", "1", "a", " ", "#"}

Templates == UNION {[1..n -> Alphabet] : n \in 0..MaxLen}

\* argument lists of a direct render_script call
RenderArgs == {<<>>, <<<<"b">>>>, <<<<"$">>>>, <<<<"$", "2">>>>, <<<<"b">>, <<"c">>>>}

\* variable tables of a direct render_script call
RenderVars ==
    {NMap(<<>>),
     NMap(<<[k |-> <<"a">>, v |-> NStr(<<"w">>)]>>),
     NMap(<<[k |-> <<"a">>, v |-> NInt(10)], [k |-> <<"a", "a">>, v |-> NStr(<<"$", "$">>)]>>)}

\* scripts of several templates: sequences over a few templates
StepPool ==
    {<<"$", "1">>, <<" ", "#", "$", "1">>, <<"a", " ">>, <<"$", "a">>, <<"?", "$", "1">>}

\* longest script of several templates in a direct render_script call
MaxSteps == 3

Scripts == UNION {[1..n -> StepPool] : n \in 2..MaxSteps}

kRun == <<"r", "u", "n">>

kEx == <<"e", "x">>

kScripts == <<"s", "c", "r", "i", "p", "t", "s">>

kVars == <<"v", "a", "r", "s">>

\* the configurations execute is called with
Config1 ==
    NMap(<<
      [k |-> kScripts, v |-> NMap(<<
        [k |-> kEx, v |-> NMap(<<
            [k |-> <<"s">>, v |-> NStr(<<"e", " ", "h">>)],
            [k |-> <<"d">>, v |-> NMap(<<
                [k |-> <<"u">>, v |-> NList(<<NStr(<<"d", " ", "-", "u">>)>>)],
                [k |-> <<"s">>, v |-> NStr(<<"d", " ", "?", "$", "1">>)]>>)]>>)],
        [k |-> kRun, v |-> NMap(<<
            [k |-> <<"s">>, v |-> NList(<<NStr(<<"e", " ", "$", "1">>),
                                          NStr(<<"#", "c">>),
                                          NStr(<<"e", " ", "$", "v">>),
                                          NStr(<<"e", " ", "$", "2">>)>>)],
            [k |-> <<"d">>, v |-> NMap(<<
                [k |-> <<"u">>, v |-> NStr(<<"u", "p", " ", "$", "$", "1">>)]>>)]>>)],
        [k |-> <<"m">>, v |-> NList(<<NStr(<<"a">>), NInt(1)>>)],
        [k |-> <<"e">>, v |-> NMap(<<>>)],
        [k |-> <<"n">>, v |-> NInt(7)]>>)],
      [k |-> kVars, v |-> NMap(<<
        [k |-> <<"v">>, v |-> NStr(<<"1">>)],
        [k |-> <<"k">>, v |-> NInt(10)],
        [k |-> <<"M", "C", "L", "_", "A", "R", "G", "_", "1">>, v |-> NStr(<<"w">>)]>>)]>>)

\* a name defined directly and under "run", null scripts; no "vars" key
Config2 ==
    NMap(<<
      [k |-> kScripts, v |-> NMap(<<
        [k |-> <<"s">>, v |-> NList(<<NStr(<<"a", " ", "$", "1">>), NStr(<<"b">>)>>)],
        [k |-> kRun, v |-> NMap(<<
            [k |-> <<"s">>, v |-> NStr(<<"r", " ", "s">>)],
            [k |-> <<"u">>, v |-> NStr(<<"r", " ", "$", "w">>)],
            [k |-> <<"x">>, v |-> None]>>)],
        [k |-> <<"u">>, v |-> None],
        [k |-> <<"n">>, v |-> None]>>)]>>)

\* "run" is a script, not a namespace
Config3 ==
    NMap(<<
      [k |-> kScripts, v |-> NMap(<<
        [k |-> kRun, v |-> NStr(<<"r">>)],
        [k |-> <<"d">>, v |-> NStr(<<" ">>)]>>)],
      [k |-> kVars, v |-> NMap(<<>>)]>>)

\* "scripts" is not an object
Config4 ==
    NMap(<<[k |-> kScripts, v |-> NList(<<>>)], [k |-> kVars, v |-> NMap(<<>>)]>>)

\* "vars" is not an object
Config5 ==
    NMap(<<
      [k |-> kScripts, v |-> NMap(<<[k |-> <<"s">>, v |-> NStr(<<"a">>)]>>)],
      [k |-> kVars, v |-> NInt(3)]>>)

Configs == {Config1, Config2, Config3, Config4, Config5}

\* longest script written as a bare string without a marker to substitute
MaxBare == 3

\* characters of those scripts
BareAlphabet == {"a", " ", "#", "$"}

BareStrings == UNION {[1..n -> BareAlphabet] : n \in 0..MaxBare}

\* {"scripts": {"s": payload}}
ConfigBare(payload) ==
    NMap(<<[k |-> kScripts, v |-> NMap(<<[k |-> <<"s">>, v |-> NStr(payload)]>>)]>>)

CmdNames == {kEx, kRun, <<"s">>, <<"d">>, <<"m">>, <<"e">>, <<"n">>, <<"z">>}

ArgPool == {<<"s">>, <<"d">>, <<"u">>, <<"x">>}

ArgLists == UNION {[1..n -> ArgPool] : n \in 0..MaxArgs}

\* os.environ
Environ == NMap(<<[k |-> <<"v">>, v |-> NStr(<<"o">>)]>>)

(***************************************************************************)
(* State.                                                                  *)
(***************************************************************************)
VARIABLES
    entry,        \* the function called: "execute" or "render_script"
    call,         \* the caller's script name and argument list
    config, cmd_name, args, dry_run, share_vars,   \* execute's parameters
    tty,          \* sys.stdin.isatty() and sys.stdout.isatty()
    raw_script,   \* execute's local
    current, remaining, path,                      \* _resolve_script_definition's locals
    steps_list, call_args, vars_dict,              \* execute's locals
    script_steps, i, step, rendered,               \* render_script's parameter and locals
    steps, env, j,                                 \* execute's locals
    shell,        \* the subprocess.run calls made so far, and how each ended
    log,          \* the logger.info records made so far
    asked,        \* the questionary.select prompts shown so far
    pc,           \* position in the code
    err,          \* the exception that ended the call
    local,        \* load_config's parameter
    global_file, local_file,                       \* the two configuration files
    merged, global_data, local_data,               \* load_config's locals
    script_tree,  \* list_script_paths' parameter scripts
    paths         \* the list that list_script_paths returns

vars == <<entry, call, config, cmd_name, args, dry_run, share_vars, tty, raw_script,
          current, remaining, path, steps_list, call_args, vars_dict,
          script_steps, i, step, rendered, steps, env, j, shell, log, asked,
          pc, err, local, global_file, local_file, merged, global_data, local_data,
          script_tree, paths>>

loader == <<local, global_file, local_file, merged, global_data, local_data>>

lister == <<script_tree, paths>>

\* what no step of execute or render_script writes
inputs == <<entry, call, config, dry_run, share_vars, tty, loader, lister>>

resolver == <<raw_script, current, remaining, path>>

renderer == <<script_steps, i, step, rendered>>

runner == <<steps, env, j, shell, log>>

NoEnv == [set |-> FALSE, map |-> NMap(<<>>)]

InitLocals ==
    /\ raw_script = None
    /\ current = None
    /\ remaining = <<>>
    /\ path = <<>>
    /\ steps_list = <<>>
    /\ step = <<>>
    /\ rendered = <<>>
    /\ steps = <<>>
    /\ env = NoEnv
    /\ i = 1
    /\ j = 1
    /\ shell = <<>>
    /\ log = <<>>
    /\ asked = <<>>
    /\ err = NoError

\* a file that does not exist
NoFile == [exists |-> FALSE, valid |-> TRUE, data |-> None]

\* load_config is not running
LoaderIdle ==
    /\ local = FALSE
    /\ global_file = NoFile
    /\ local_file = NoFile
    /\ merged = None
    /\ global_data = None
    /\ local_data = None

\* list_script_paths is not running
ListerIdle ==
    /\ script_tree = None
    /\ paths = <<>>

\* a call of execute(config, cmd_name, args, dry_run, share_vars)
Init ==
    /\ entry = "execute"
    /\ \/ /\ config \in Configs
          /\ cmd_name \in CmdNames
          /\ args \in ArgLists
       \/ /\ config \in {ConfigBare(t) : t \in BareStrings}
          /\ cmd_name = <<"s">>
          /\ args \in {<<>>, << <<"x">> >>}
    /\ call = [cmd_name |-> cmd_name, args |-> args]
    /\ dry_run \in BOOLEAN
    /\ share_vars \in BOOLEAN
    /\ tty \in BOOLEAN
    /\ call_args = <<>>
    /\ vars_dict = None
    /\ script_steps = <<>>
    /\ pc = "execute"
    /\ InitLocals
    /\ LoaderIdle
    /\ ListerIdle

\* a call of render_script(script_steps, args, vars_dict)
InitRender ==
    /\ entry = "render_script"
    /\ config = None
    /\ cmd_name = <<>>
    /\ args = <<>>
    /\ call = [cmd_name |-> <<>>, args |-> <<>>]
    /\ dry_run = FALSE
    /\ share_vars = FALSE
    /\ tty = FALSE
    /\ script_steps \in {<<t>> : t \in Templates} \cup Scripts
    /\ call_args \in RenderArgs
    /\ vars_dict \in RenderVars
    /\ pc = "render"
    /\ InitLocals
    /\ LoaderIdle
    /\ ListerIdle

\* raise: the call ends with the exception e
Raise(e) == err' = e /\ pc' = "error"

(***************************************************************************)
(* execute, up to the call of _resolve_script_definition.                  *)
(***************************************************************************)
\* config.get("vars", {})
ConfigVars(c) == IF HasKey(c, kVars) THEN Lookup(c, kVars) ELSE NMap(<<>>)

\* the "run" namespace holds the name: isinstance(run_scripts, Mapping) and cmd_name in run_scripts
InRunNamespace(scripts, name) ==
    IsMapping(Get(scripts, kRun)) /\ HasKey(Get(scripts, kRun), name)

\* a fallback that forgets to put the name back in front of the arguments
Reinserted_Dropped(name, as) == as

\* args = [cmd_name] + list(args)
Reinserted(name, as) == <<name>> \o as

ExecLookup ==
    /\ pc = "execute"
    /\ LET scripts == Get(config, kScripts)
       IN  IF ~IsMapping(scripts)
           THEN /\ Raise(ValueError("NoScriptsObject", <<>>, <<>>))
                /\ UNCHANGED <<cmd_name, args, resolver>>
           ELSE IF Get(scripts, cmd_name) # None
           THEN /\ raw_script' = Get(scripts, cmd_name)
                /\ current' = raw_script'
                /\ remaining' = args
                /\ path' = <<>>
                /\ pc' = "resolve"
                /\ UNCHANGED <<cmd_name, args, err>>
           ELSE IF InRunNamespace(scripts, cmd_name)
           THEN /\ raw_script' = Get(scripts, kRun)
                /\ args' = Reinserted(cmd_name, args)
                /\ cmd_name' = kRun
                /\ current' = raw_script'
                /\ remaining' = args'
                /\ path' = <<>>
                /\ pc' = "resolve"
                /\ UNCHANGED err
           ELSE /\ Raise(ValueError("NotDefined", cmd_name, <<>>))
                /\ UNCHANGED <<cmd_name, args, resolver>>
    /\ UNCHANGED <<inputs, steps_list, call_args, vars_dict, renderer, runner, asked>>

(***************************************************************************)
(* _resolve_script_definition: one action per turn of the while loop.      *)
(***************************************************************************)
\* not remaining, and no terminal: the error of lines 64-69
ResolveAmbiguous ==
    /\ pc = "resolve"
    /\ IsMapping(current)
    /\ remaining = <<>>
    /\ ~tty
    /\ Raise(ValueError("AmbiguousScript", _format_path(cmd_name, path),
                        Available(current)))
    /\ UNCHANGED <<inputs, cmd_name, args, resolver, steps_list, call_args,
                   vars_dict, renderer, runner, asked>>

\* the menu lists the keys as the mapping holds them
Prompt_Unsorted(node) ==
    [title |-> _format_path(cmd_name, path), choices |-> Keys(node)]

\* questionary.select(title, choices=available_options)
Prompt(node) ==
    [title |-> _format_path(cmd_name, path), choices |-> AvailableOptions(node)]

\* a cancelled menu reported as the error of the call without a terminal
ResolvePrompt_CancelAsAmbiguous ==
    /\ pc = "resolve"
    /\ IsMapping(current)
    /\ remaining = <<>>
    /\ tty
    /\ asked' = Append(asked, Prompt(current))
    /\ \/ \E choice \in {current.entries[k].k : k \in 1..Len(current.entries)} :
            /\ remaining' = <<choice>>
            /\ UNCHANGED <<pc, err>>
       \/ /\ Raise(ValueError("AmbiguousScript", _format_path(cmd_name, path),
                              Available(current)))
          /\ UNCHANGED remaining
    /\ UNCHANGED <<inputs, cmd_name, args, raw_script, current, path, steps_list,
                   call_args, vars_dict, renderer, runner>>

\* not remaining, in a terminal: the menu; the pick is appended to remaining
ResolvePrompt ==
    /\ pc = "resolve"
    /\ IsMapping(current)
    /\ remaining = <<>>
    /\ tty
    /\ asked' = Append(asked, Prompt(current))
    /\ \/ \E choice \in {current.entries[k].k : k \in 1..Len(current.entries)} :
            /\ remaining' = <<choice>>
            /\ UNCHANGED <<pc, err>>
       \/ /\ Raise(ValueError("Cancelled", <<>>, <<>>))
          /\ UNCHANGED remaining
    /\ UNCHANGED <<inputs, cmd_name, args, raw_script, current, path, steps_list,
                   call_args, vars_dict, renderer, runner>>

\* remaining.pop(): the last element popped instead of the first
Pop0_Last(xs) == [key |-> xs[Len(xs)], rest |-> SubSeq(xs, 1, Len(xs) - 1)]

\* remaining.pop(0): the element popped and the list left
Pop0(xs) == [key |-> Head(xs), rest |-> Tail(xs)]

\* remaining = all_args: the pop is made on the list the caller passed
ResolveDescend_Aliased ==
    /\ pc = "resolve"
    /\ IsMapping(current)
    /\ remaining # <<>>
    /\ LET key == Pop0(remaining).key
       IN  /\ remaining' = Pop0(remaining).rest
           /\ call' = IF args = call.args THEN [call EXCEPT !.args = remaining']
                      ELSE call
           /\ IF ~HasKey(current, key)
              THEN /\ Raise(ValueError("UnknownSubcommand",
                                       _format_path(cmd_name, path) \o <<" ">> \o key,
                                       Available(current)))
                   /\ UNCHANGED <<path, current>>
              ELSE /\ path' = Append(path, key)
                   /\ current' = Lookup(current, key)
                   /\ UNCHANGED <<pc, err>>
    /\ UNCHANGED <<entry, config, dry_run, share_vars, tty, loader, lister, cmd_name, args,
                   raw_script, steps_list, call_args, vars_dict, renderer, runner, asked>>

\* an argument that is no key of the mapping is discarded and the walk goes on
ResolveDescend_Skip ==
    /\ pc = "resolve"
    /\ IsMapping(current)
    /\ remaining # <<>>
    /\ LET key == Pop0(remaining).key
       IN  /\ remaining' = Pop0(remaining).rest
           /\ IF ~HasKey(current, key)
              THEN UNCHANGED <<path, current, pc, err>>
              ELSE /\ path' = Append(path, key)
                   /\ current' = Lookup(current, key)
                   /\ UNCHANGED <<pc, err>>
    /\ UNCHANGED <<inputs, cmd_name, args, raw_script, steps_list, call_args,
                   vars_dict, renderer, runner, asked>>

\* path.append(key) without current = current[key]
ResolveDescend_StayPut ==
    /\ pc = "resolve"
    /\ IsMapping(current)
    /\ remaining # <<>>
    /\ LET key == Pop0(remaining).key
       IN  /\ remaining' = Pop0(remaining).rest
           /\ IF ~HasKey(current, key)
              THEN /\ Raise(ValueError("UnknownSubcommand",
                                       _format_path(cmd_name, path) \o <<" ">> \o key,
                                       Available(current)))
                   /\ UNCHANGED <<path, current>>
              ELSE /\ path' = Append(path, key)
                   /\ current' = IF IsMapping(Lookup(current, key)) THEN current
                                 ELSE Lookup(current, key)
                   /\ UNCHANGED <<pc, err>>
    /\ UNCHANGED <<inputs, cmd_name, args, raw_script, steps_list, call_args,
                   vars_dict, renderer, runner, asked>>

\* key = remaining.pop(0), and the step down (or the error of lines 86-91)
ResolveDescend ==
    /\ pc = "resolve"
    /\ IsMapping(current)
    /\ remaining # <<>>
    /\ LET key == Pop0(remaining).key
       IN  /\ remaining' = Pop0(remaining).rest
           /\ IF ~HasKey(current, key)
              THEN /\ Raise(ValueError("UnknownSubcommand",
                                       _format_path(cmd_name, path) \o <<" ">> \o key,
                                       Available(current)))
                   /\ UNCHANGED <<path, current>>
              ELSE /\ path' = Append(path, key)
                   /\ current' = Lookup(current, key)
                   /\ UNCHANGED <<pc, err>>
    /\ UNCHANGED <<inputs, cmd_name, args, raw_script, steps_list, call_args,
                   vars_dict, renderer, runner, asked>>

\* the loop ends at a leaf: _coerce_steps, the return, and execute up to the
\* call of render_script (lines 96-97 and 166-172)
ResolveLeaf ==
    /\ pc = "resolve"
    /\ ~IsMapping(current)
    /\ LET r == _coerce_steps(current, cmd_name, path)
       IN  IF ~r.ok
           THEN /\ Raise(r.err)
                /\ UNCHANGED <<steps_list, call_args, vars_dict, script_steps, i, rendered>>
           ELSE /\ steps_list' = r.out
                /\ call_args' = remaining
                /\ vars_dict' = ConfigVars(config)
                /\ IF ~IsMapping(vars_dict')
                   THEN /\ Raise(ValueError("VarsNotObject", <<>>, <<>>))
                        /\ UNCHANGED <<script_steps, i, rendered>>
                   ELSE /\ script_steps' = steps_list'
                        /\ i' = 1
                        /\ rendered' = <<>>
                        /\ pc' = "render"
                        /\ UNCHANGED err
    /\ UNCHANGED <<inputs, cmd_name, args, resolver, step, runner, asked>>

(***************************************************************************)
(* render_script: the for loop, one action per statement of its body.      *)
(***************************************************************************)
notRenderer == <<inputs, cmd_name, args, resolver, steps_list, call_args,
                 vars_dict, script_steps, runner, asked>>

\* the step is blank or a comment: continue
RenderSkip ==
    /\ pc = "render"
    /\ i <= Len(script_steps)
    /\ IsSkipped(script_steps[i])
    /\ i' = i + 1
    /\ UNCHANGED <<notRenderer, step, rendered, pc, err>>

\* step = _replace_optional(raw_step, args)
RenderOptional ==
    /\ pc = "render"
    /\ i <= Len(script_steps)
    /\ ~IsSkipped(script_steps[i])
    /\ step' = _replace_optional(script_steps[i], call_args).out
    /\ pc' = "positional"
    /\ UNCHANGED <<notRenderer, i, rendered, err>>

\* a failing step dropped and the loop carried on, instead of the error raised
RenderPositional_Swallow ==
    /\ pc = "positional"
    /\ LET r == _replace_positional(step, call_args)
       IN  IF r.ok
           THEN step' = r.out /\ pc' = "vars" /\ UNCHANGED <<i, err>>
           ELSE i' = i + 1 /\ pc' = "render" /\ UNCHANGED <<step, err>>
    /\ UNCHANGED <<notRenderer, rendered>>

\* step = _replace_positional(step, args)
RenderPositional ==
    /\ pc = "positional"
    /\ LET r == _replace_positional(step, call_args)
       IN  IF r.ok
           THEN step' = r.out /\ pc' = "vars" /\ UNCHANGED err
           ELSE Raise(r.err) /\ UNCHANGED step
    /\ UNCHANGED <<notRenderer, i, rendered>>

\* step = _replace_vars(step, vars_dict)
RenderVariables ==
    /\ pc = "vars"
    /\ LET r == _replace_vars(step, vars_dict)
       IN  IF r.ok
           THEN step' = r.out /\ pc' = "unescape" /\ UNCHANGED err
           ELSE Raise(r.err) /\ UNCHANGED step
    /\ UNCHANGED <<notRenderer, i, rendered>>

\* step = _unescape_dollars(step)
RenderUnescape ==
    /\ pc = "unescape"
    /\ step' = _unescape_dollars(step)
    /\ pc' = "strip"
    /\ UNCHANGED <<notRenderer, i, rendered, err>>

\* final_step = step.strip(), appended when not empty
RenderAppend ==
    /\ pc = "strip"
    /\ LET final_step == Strip(step)
       IN  rendered' = IF final_step # <<>> THEN Append(rendered, final_step)
                       ELSE rendered
    /\ i' = i + 1
    /\ pc' = "render"
    /\ UNCHANGED <<notRenderer, step, err>>

\* return rendered
RenderReturn ==
    /\ pc = "render"
    /\ i > Len(script_steps)
    /\ pc' = "rendered"
    /\ UNCHANGED <<notRenderer, i, step, rendered, err>>

(***************************************************************************)
(* execute, after render_script.                                           *)
(***************************************************************************)
\* d[key] = value
DictSet(d, key, value) ==
    IF HasKey(d, key)
    THEN NMap([k \in 1..Len(d.entries) |->
                 IF d.entries[k].k = key THEN [k |-> key, v |-> value]
                 ELSE d.entries[k]])
    ELSE NMap(Append(d.entries, [k |-> key, v |-> value]))

\* for key, value in vars_dict.items(): env[str(key)] = str(value)
RECURSIVE ExportVars(_, _, _)
ExportVars(e, vd, k) ==
    IF k > Len(vd.entries) THEN e
    ELSE ExportVars(DictSet(e, vd.entries[k].k, NStr(StrOf(vd.entries[k].v))), vd, k + 1)

kMclArg == <<"M", "C", "L", "_", "A", "R", "G", "_">>

\* the arguments numbered from 0
RECURSIVE ExportArgs_ZeroBased(_, _, _)
ExportArgs_ZeroBased(e, as, k) ==
    IF k > Len(as) THEN e
    ELSE ExportArgs_ZeroBased(DictSet(e, kMclArg \o IntStr(k - 1), NStr(as[k])), as, k + 1)

\* for index, arg in enumerate(call_args, start=1): env[f"MCL_ARG_{index}"] = arg
RECURSIVE ExportArgs(_, _, _)
ExportArgs(e, as, k) ==
    IF k > Len(as) THEN e
    ELSE ExportArgs(DictSet(e, kMclArg \o IntStr(k), NStr(as[k])), as, k + 1)

\* lines 177-183
BuildEnv(share, vd, as) ==
    IF share
    THEN [set |-> TRUE, map |-> ExportArgs(ExportVars(Environ, vd, 1), as, 1)]
    ELSE NoEnv

\* steps = render_script(...); the early return; env
ExecPrepare ==
    /\ pc = "rendered"
    /\ entry = "execute"
    /\ steps' = rendered
    /\ IF steps' = <<>>
       THEN /\ log' = Append(log, [msg |-> "No executable steps", text |-> cmd_name])
            /\ pc' = "done"
            /\ UNCHANGED <<env, j>>
       ELSE /\ env' = BuildEnv(share_vars, vars_dict, call_args)
            /\ j' = 1
            /\ pc' = "run"
            /\ UNCHANGED log
    /\ UNCHANGED <<inputs, cmd_name, args, resolver, steps_list, call_args,
                   vars_dict, renderer, shell, asked, err>>

\* the dry-run flag is not looked at
RunStep_DryRunIgnored ==
    /\ pc = "run"
    /\ j <= Len(steps)
    /\ log' = Append(log, [msg |-> "Executing step", text |-> steps[j]])
    /\ \/ /\ shell' = Append(shell, [cmd |-> steps[j], env |-> env, ok |-> TRUE])
          /\ j' = j + 1
          /\ UNCHANGED <<pc, err>>
       \/ /\ shell' = Append(shell, [cmd |-> steps[j], env |-> env, ok |-> FALSE])
          /\ Raise(ValueError("CommandFailed", <<>>, <<>>))
          /\ UNCHANGED j
    /\ UNCHANGED <<inputs, cmd_name, args, resolver, steps_list, call_args,
                   vars_dict, renderer, steps, env, asked>>

\* a command that exits with a non-zero status does not end the loop
RunStep_KeepGoing ==
    /\ pc = "run"
    /\ j <= Len(steps)
    /\ IF dry_run
       THEN /\ log' = log \o <<[msg |-> "Executing step", text |-> steps[j]],
                               [msg |-> "Dry-run enabled; skipping execution", text |-> <<>>]>>
            /\ j' = j + 1
            /\ UNCHANGED <<shell, pc, err>>
       ELSE /\ log' = Append(log, [msg |-> "Executing step", text |-> steps[j]])
            /\ \E status \in BOOLEAN :
                  shell' = Append(shell, [cmd |-> steps[j], env |-> env, ok |-> status])
            /\ j' = j + 1
            /\ UNCHANGED <<pc, err>>
    /\ UNCHANGED <<inputs, cmd_name, args, resolver, steps_list, call_args,
                   vars_dict, renderer, steps, env, asked>>

\* in dry-run mode the step is not logged, only the record that it is skipped
RunStep_DryRunUnlogged ==
    /\ pc = "run"
    /\ j <= Len(steps)
    /\ IF dry_run
       THEN /\ log' = Append(log, [msg |-> "Dry-run enabled; skipping execution",
                                   text |-> <<>>])
            /\ j' = j + 1
            /\ UNCHANGED <<shell, pc, err>>
       ELSE /\ log' = Append(log, [msg |-> "Executing step", text |-> steps[j]])
            /\ \/ /\ shell' = Append(shell, [cmd |-> steps[j], env |-> env, ok |-> TRUE])
                  /\ j' = j + 1
                  /\ UNCHANGED <<pc, err>>
               \/ /\ shell' = Append(shell, [cmd |-> steps[j], env |-> env, ok |-> FALSE])
                  /\ Raise(ValueError("CommandFailed", <<>>, <<>>))
                  /\ UNCHANGED j
    /\ UNCHANGED <<inputs, cmd_name, args, resolver, steps_list, call_args,
                   vars_dict, renderer, steps, env, asked>>

\* one turn of the for loop over steps; ok: the command exited with status 0
RunStep ==
    /\ pc = "run"
    /\ j <= Len(steps)
    /\ IF dry_run
       THEN /\ log' = log \o <<[msg |-> "Executing step", text |-> steps[j]],
                               [msg |-> "Dry-run enabled; skipping execution", text |-> <<>>]>>
            /\ j' = j + 1
            /\ UNCHANGED <<shell, pc, err>>
       ELSE /\ log' = Append(log, [msg |-> "Executing step", text |-> steps[j]])
            /\ \/ /\ shell' = Append(shell, [cmd |-> steps[j], env |-> env, ok |-> TRUE])
                  /\ j' = j + 1
                  /\ UNCHANGED <<pc, err>>
               \/ /\ shell' = Append(shell, [cmd |-> steps[j], env |-> env, ok |-> FALSE])
                  /\ Raise(ValueError("CommandFailed", <<>>, <<>>))
                  /\ UNCHANGED j
    /\ UNCHANGED <<inputs, cmd_name, args, resolver, steps_list, call_args,
                   vars_dict, renderer, steps, env, asked>>

\* the loop is over: execute returns
RunDone ==
    /\ pc = "run"
    /\ j > Len(steps)
    /\ pc' = "done"
    /\ UNCHANGED <<inputs, cmd_name, args, resolver, steps_list, call_args,
                   vars_dict, renderer, runner, asked, err>>

NextRender ==
    \/ RenderSkip
    \/ RenderOptional
    \/ RenderPositional
    \/ RenderVariables
    \/ RenderUnescape
    \/ RenderAppend
    \/ RenderReturn

Next ==
    \/ ExecLookup
    \/ ResolveAmbiguous
    \/ ResolvePrompt
    \/ ResolveDescend
    \/ ResolveLeaf
    \/ NextRender
    \/ ExecPrepare
    \/ RunStep
    \/ RunDone

Spec == Init /\ [][Next]_vars

SpecRender == InitRender /\ [][NextRender]_vars

(***************************************************************************)
(* config.py: load_config.  A file is absent, holds text that is no JSON,  *)
(* or holds a JSON value.  A dict assigned into merged is the very object  *)
(* of the file's data, so the merge of the local file into such a dict     *)
(* also changes global_data.                                               *)
(***************************************************************************)
kGlobalScripts == <<"_", "_", "g", "l", "o", "b", "a", "l", "_", "s", "c", "r", "i", "p", "t", "s", "_", "_">>

kLocalScripts == <<"_", "_", "l", "o", "c", "a", "l", "_", "s", "c", "r", "i", "p", "t", "s", "_", "_">>

FileOf(data) == [exists |-> TRUE, valid |-> TRUE, data |-> data]

\* a file whose text json.load rejects
BadJsonFile == [exists |-> TRUE, valid |-> FALSE, data |-> None]

_load_json(file) ==
    IF ~file.valid THEN Fail(ValueError("InvalidJson", <<>>, <<>>))
    ELSE IF ~IsMapping(file.data) THEN Fail(ValueError("NotAnObject", <<>>, <<>>))
    ELSE Ok(file.data)

\* the value of override replaces the value of base at every key, also when
\* both are dicts
MergeEntry_Replace(base, e) == DictSet(base, e.k, e.v)

\* one turn of the loop of _merge_dicts, for the item e of override
RECURSIVE MergeEntry(_, _)
RECURSIVE MergeFrom(_, _, _)
MergeEntry(base, e) ==
    IF HasKey(base, e.k)
    THEN IF IsMapping(Lookup(base, e.k)) /\ IsMapping(e.v)
         THEN DictSet(base, e.k, MergeFrom(Lookup(base, e.k), e.v, 1))
         ELSE DictSet(base, e.k, e.v)
    ELSE DictSet(base, e.k, e.v)

\* the loop of _merge_dicts from the k-th item of override on
MergeFrom(base, override, k) ==
    IF k > Len(override.entries) THEN base
    ELSE MergeFrom(MergeEntry(base, override.entries[k]), override, k + 1)

\* base after _merge_dicts(base, override)
_merge_dicts(base, override) == MergeFrom(base, override, 1)

\* the dict d of global_data after override was merged into merged: each
\* value of d that merged holds as the same object has taken the merge
SharedMerge(d, override) ==
    NMap([k \in 1..Len(d.entries) |->
            IF IsMapping(d.entries[k].v)
            THEN IF HasKey(override, d.entries[k].k)
                 THEN IF IsMapping(Lookup(override, d.entries[k].k))
                      THEN [k |-> d.entries[k].k,
                            v |-> _merge_dicts(d.entries[k].v,
                                               Lookup(override, d.entries[k].k))]
                      ELSE d.entries[k]
                 ELSE d.entries[k]
            ELSE d.entries[k]])

\* global_data after _merge_dicts(merged, local_data): "vars" and "scripts"
\* of merged are dicts of its own, filled with the values of global_data;
\* every other dict of merged is the dict of global_data
GlobalAfterLocal(g, l) ==
    NMap([k \in 1..Len(g.entries) |->
            IF g.entries[k].k \in {kScripts, kVars}
            THEN IF IsMapping(g.entries[k].v)
                 THEN IF HasKey(l, g.entries[k].k)
                      THEN IF IsMapping(Lookup(l, g.entries[k].k))
                           THEN [k |-> g.entries[k].k,
                                 v |-> SharedMerge(g.entries[k].v,
                                                   Lookup(l, g.entries[k].k))]
                           ELSE g.entries[k]
                      ELSE g.entries[k]
                 ELSE g.entries[k]
            ELSE SharedMerge(g, l).entries[k]])

\* d.setdefault(key, value)
SetDefault(d, key, value) == IF HasKey(d, key) THEN d ELSE DictSet(d, key, value)

\* data.get("scripts", {}) if it is a dict, else {}
ScriptsOf(data) ==
    IF HasKey(data, kScripts)
    THEN IF IsMapping(Lookup(data, kScripts)) THEN Lookup(data, kScripts) ELSE NMap(<<>>)
    ELSE NMap(<<>>)

\* the script sections of the files
ScriptSections ==
    {NMap(<<>>),
     NMap(<<[k |-> <<"a">>, v |-> NStr(<<"1">>)]>>),
     NMap(<<[k |-> <<"a">>, v |-> NMap(<<[k |-> <<"b">>, v |-> NStr(<<"2">>)]>>)]>>),
     NMap(<<[k |-> <<"d">>, v |-> NStr(<<"4">>)],
            [k |-> <<"a">>, v |-> NMap(<<[k |-> <<"c">>, v |-> NStr(<<"3">>)],
                                         [k |-> <<"b">>, v |-> NList(<<>>)]>>)]>>),
     NStr(<<"x">>)}

\* the variable sections of the files
VarSections ==
    {NMap(<<>>), NMap(<<[k |-> <<"v">>, v |-> NStr(<<"1">>)]>>), NInt(3)}

\* the values of another key of the files
OtherSections ==
    {NStr(<<"y">>), NMap(<<[k |-> <<"p">>, v |-> NInt(1)]>>),
     NMap(<<[k |-> <<"q">>, v |-> NInt(2)]>>)}

\* the entry of key, or no entry
Section(key, values) == {<<>>} \cup {<<[k |-> key, v |-> x]>> : x \in values}

\* the JSON objects the files hold
ConfigObjects ==
    {NMap(a \o b \o c) : a \in Section(kScripts, ScriptSections),
                          b \in Section(kVars, VarSections),
                          c \in Section(<<"o">>, OtherSections)}

ConfigFiles == {NoFile, BadJsonFile, FileOf(NList(<<>>))} \cup {FileOf(d) : d \in ConfigObjects}

\* a call of load_config(local), up to line 76
InitConfig ==
    /\ entry = "load_config"
    /\ local \in BOOLEAN
    /\ global_file \in ConfigFiles
    /\ local_file \in ConfigFiles
    /\ merged = NMap(<<[k |-> kVars, v |-> NMap(<<>>)], [k |-> kScripts, v |-> NMap(<<>>)]>>)
    /\ global_data = NMap(<<>>)
    /\ local_data = NMap(<<>>)
    /\ config = None
    /\ cmd_name = <<>>
    /\ args = <<>>
    /\ call = [cmd_name |-> <<>>, args |-> <<>>]
    /\ dry_run = FALSE
    /\ share_vars = FALSE
    /\ tty = FALSE
    /\ call_args = <<>>
    /\ vars_dict = None
    /\ script_steps = <<>>
    /\ pc = "load_global"
    /\ InitLocals
    /\ ListerIdle

notLoader == <<entry, call, config, dry_run, share_vars, tty, cmd_name, args, resolver,
               steps_list, call_args, vars_dict, renderer, runner, asked, lister>>

\* lines 78-82
LoadGlobal ==
    /\ pc = "load_global"
    /\ IF global_file.exists
       THEN IF _load_json(global_file).ok
            THEN /\ global_data' = _load_json(global_file).out
                 /\ merged' = _merge_dicts(merged, global_data')
                 /\ pc' = "load_local"
                 /\ UNCHANGED err
            ELSE /\ Raise(_load_json(global_file).err)
                 /\ UNCHANGED <<global_data, merged>>
       ELSE /\ pc' = "load_local"
            /\ UNCHANGED <<global_data, merged, err>>
    /\ UNCHANGED <<notLoader, local, global_file, local_file, local_data>>

\* lines 84-88
LoadLocal ==
    /\ pc = "load_local"
    /\ IF local /\ local_file.exists
       THEN IF _load_json(local_file).ok
            THEN /\ local_data' = _load_json(local_file).out
                 /\ merged' = _merge_dicts(merged, local_data')
                 /\ global_data' = GlobalAfterLocal(global_data, local_data')
                 /\ pc' = "finish"
                 /\ UNCHANGED err
            ELSE /\ Raise(_load_json(local_file).err)
                 /\ UNCHANGED <<global_data, local_data, merged>>
       ELSE /\ pc' = "finish"
            /\ UNCHANGED <<global_data, local_data, merged, err>>
    /\ UNCHANGED <<notLoader, local, global_file, local_file>>

\* lines 90-113
LoadFinish ==
    /\ pc = "finish"
    /\ LET filled == SetDefault(SetDefault(merged, kScripts, NMap(<<>>)), kVars, NMap(<<>>))
       IN  IF IsMapping(Lookup(filled, kScripts)) /\ IsMapping(Lookup(filled, kVars))
           THEN /\ merged' = DictSet(DictSet(filled, kGlobalScripts, ScriptsOf(global_data)),
                                     kLocalScripts, ScriptsOf(local_data))
                /\ pc' = "loaded"
                /\ UNCHANGED err
           ELSE /\ merged' = filled
                /\ Raise(ValueError("KeysNotObjects", <<>>, <<>>))
    /\ UNCHANGED <<notLoader, local, global_file, local_file, global_data, local_data>>

NextConfig ==
    \/ LoadGlobal
    \/ LoadLocal
    \/ LoadFinish

SpecConfig == InitConfig /\ [][NextConfig]_vars

(***************************************************************************)
(* commands.py: list_script_paths.                                         *)
(***************************************************************************)
RECURSIVE _walk(_, _)
RECURSIVE WalkItems(_, _, _)
\* an empty mapping is not listed
_walk_SkipEmpty(prefix, node) ==
    IF IsMapping(node) THEN WalkItems(prefix, node, 1)
    ELSE IF node.t = "list" THEN <<Join(<<" ">>, prefix)>>
    ELSE IF node.t = "str" THEN <<Join(<<" ">>, prefix)>>
    ELSE <<>>

\* the paths that _walk(prefix, node) appends, in the order it appends them
_walk(prefix, node) ==
    IF IsMapping(node)
    THEN IF node.entries = <<>> THEN <<Join(<<" ">>, prefix)>>
         ELSE WalkItems(prefix, node, 1)
    ELSE IF node.t = "list" THEN <<Join(<<" ">>, prefix)>>
    ELSE IF node.t = "str" THEN <<Join(<<" ">>, prefix)>>
    ELSE <<>>

\* for key, child in node.items(), from the k-th item on
WalkItems(prefix, node, k) ==
    IF k > Len(node.entries) THEN <<>>
    ELSE _walk(Append(prefix, node.entries[k].k), node.entries[k].v)
             \o WalkItems(prefix, node, k + 1)

\* for top in sorted_keys: _walk([str(top)], scripts[top])
RECURSIVE WalkTop(_, _)
WalkTop(scripts, sorted_keys) ==
    IF sorted_keys = <<>> THEN <<>>
    ELSE _walk(<<sorted_keys[1]>>, Lookup(scripts, sorted_keys[1]))
             \o WalkTop(scripts, Tail(sorted_keys))

list_script_paths(scripts) == Sorted(WalkTop(scripts, Sorted(Keys(scripts))))

\* deepest nesting of mappings in the trees listed
MaxDepth == 2

\* the values of a tree that are no mapping with keys
TreeLeaves ==
    {NStr(<<"x">>), NList(<<NStr(<<"x">>), NInt(1)>>), NMap(<<>>), NInt(7)}

\* the values of at most d levels of mappings: a mapping holds the key a, or
\* the keys b and a in that order; the value of b nests one level at most
RECURSIVE Trees(_)
Trees(d) ==
    IF d = 0 THEN TreeLeaves
    ELSE TreeLeaves
           \cup {NMap(<<[k |-> <<"a">>, v |-> x]>>) : x \in Trees(d - 1)}
           \cup {NMap(<<[k |-> <<"b">>, v |-> y], [k |-> <<"a">>, v |-> x]>>) :
                     y \in Trees(IF d = 1 THEN 0 ELSE 1), x \in Trees(d - 1)}

\* the script mappings listed
ScriptTrees == {t \in Trees(MaxDepth) : IsMapping(t)}

\* a call of list_script_paths(scripts)
InitList ==
    /\ entry = "list_script_paths"
    /\ script_tree \in ScriptTrees
    /\ paths = <<>>
    /\ config = None
    /\ cmd_name = <<>>
    /\ args = <<>>
    /\ call = [cmd_name |-> <<>>, args |-> <<>>]
    /\ dry_run = FALSE
    /\ share_vars = FALSE
    /\ tty = FALSE
    /\ call_args = <<>>
    /\ vars_dict = None
    /\ script_steps = <<>>
    /\ pc = "list"
    /\ InitLocals
    /\ LoaderIdle

\* the whole call: the walks and the final sort
ListPaths ==
    /\ pc = "list"
    /\ paths' = list_script_paths(script_tree)
    /\ pc' = "listed"
    /\ UNCHANGED <<entry, call, config, dry_run, share_vars, tty, loader, script_tree,
                   cmd_name, args, resolver, steps_list, call_args, vars_dict, renderer,
                   runner, asked, err>>

NextList == ListPaths

SpecList == InitList /\ [][NextList]_vars

(***************************************************************************)
(* Properties of the resolver and of execute, under Spec.                  *)
(***************************************************************************)
\* the call of _resolve_script_definition has returned
Resolved ==
    \/ pc \in {"render", "positional", "vars", "unescape", "strip", "rendered",
               "run", "done"}
    \/ pc = "error" /\ err.kind \in {"VarsNotObject", "MissingArgument",
                                     "UnknownVariable", "CommandFailed"}
    \/ pc = "error" /\ err.type = "IndexError"

\* every key of keys is a key of the mapping reached by the keys before it
RECURSIVE ValidPath(_, _)
ValidPath(node, keys) ==
    IF keys = <<>> THEN TRUE
    ELSE IF ~IsMapping(node) THEN FALSE
    ELSE IF ~HasKey(node, keys[1]) THEN FALSE
    ELSE ValidPath(Lookup(node, keys[1]), Tail(keys))

\* the node reached from node by keys
RECURSIVE NodeAt(_, _)
NodeAt(node, keys) ==
    IF keys = <<>> THEN node ELSE NodeAt(Lookup(node, keys[1]), Tail(keys))

\* the templates of a leaf: a string is one template, a list its elements
LeafTemplates(leaf) ==
    IF leaf.t = "str" THEN <<leaf.s>>
    ELSE [k \in 1..Len(leaf.items) |-> leaf.items[k].s]

\* C1: when the resolver returns, path holds the keys consumed, one per level
\* walked from the root; the node they lead to is a leaf and steps_list is its
\* templates; call_args is exactly the suffix of args that was not consumed,
\* in the original order (empty when keys were picked at a prompt).
C1_ResolveReturnsLeafAndSuffix ==
    Resolved =>
        /\ ValidPath(raw_script, path)
        /\ ~IsMapping(NodeAt(raw_script, path))
        /\ steps_list = LeafTemplates(NodeAt(raw_script, path))
        /\ Len(path) + Len(call_args) = Len(args) + Len(asked)
        /\ IF asked = <<>> THEN args = path \o call_args
           ELSE call_args = <<>> /\ SubSeq(path, 1, Len(args)) = args

\* example.date.utc with the arguments date, utc, extra
C1_Witness ==
    /\ config = Config1
    /\ call.cmd_name = kEx
    /\ call.args = << <<"d">>, <<"u">>, <<"x">> >>
    /\ pc = "done"
    /\ path = << <<"d">>, <<"u">> >>
    /\ steps_list = << <<"d", " ", "-", "u">> >>
    /\ call_args = << <<"x">> >>

\* the caller's name is not a script, and is a key of the mapping named "run"
FallbackCase ==
    /\ IsMapping(Get(config, kScripts))
    /\ ~HasKey(Get(config, kScripts), call.cmd_name)
    /\ HasKey(Get(config, kScripts), kRun)
    /\ IsMapping(Lookup(Get(config, kScripts), kRun))
    /\ HasKey(Lookup(Get(config, kScripts), kRun), call.cmd_name)

\* C2: a name that is not a script but is a key of the "run" mapping is
\* resolved from the "run" mapping with the name put back in front of the
\* caller's arguments, so the first key consumed is that name and the walk
\* starts at run.<name>; the name is put back at most once.
C2_RunNamespaceFallback ==
    /\ (pc # "execute" /\ FallbackCase) =>
          /\ cmd_name = kRun
          /\ raw_script = Lookup(Get(config, kScripts), kRun)
          /\ args = <<call.cmd_name>> \o call.args
          /\ err.kind # "NotDefined"
          /\ path # <<>> => path[1] = call.cmd_name
          /\ path = <<>> => err.kind \notin {"UnknownSubcommand", "AmbiguousScript",
                                            "Cancelled", "MalformedScript"}
    /\ \/ cmd_name = call.cmd_name /\ args = call.args
       \/ cmd_name = kRun /\ args = <<call.cmd_name>> \o call.args

\* "d" is defined under "run" only: d u runs run.d.u
C2_Witness ==
    /\ config = Config1
    /\ call.cmd_name = <<"d">>
    /\ call.args = << <<"u">> >>
    /\ pc = "done"
    /\ path = << <<"d">>, <<"u">> >>
    /\ ~dry_run
    /\ Len(shell) = 1
    /\ shell[1].cmd = <<"u", "p", " ", "$", "1">>

\* rendering template t with the call's arguments and variables fails
TemplateFails(t) ==
    /\ ~IsSkipped(t)
    /\ LET p == _replace_positional(_replace_optional(t, call_args).out, call_args)
       IN  IF ~p.ok THEN TRUE ELSE ~_replace_vars(p.out, vars_dict).ok

\* C3: when rendering a template of the script fails, no command of the script
\* has been handed to the shell, also not the ones rendered from the templates
\* before it; a command is run only once every template has been rendered.
C3_NoPartialExecution ==
    /\ err.kind \in {"MissingArgument", "UnknownVariable"} => shell = <<>>
    /\ shell # <<>> =>
          /\ \A k \in 1..Len(steps_list) : ~TemplateFails(steps_list[k])
          /\ i > Len(script_steps)
          /\ steps = rendered

\* two commands were rendered before the template that fails
C3_Witness ==
    /\ err.kind = "MissingArgument"
    /\ Len(rendered) = 2
    /\ ~dry_run
    /\ shell = <<>>

\* name.key1.key2...
RECURSIVE Dotted(_, _)
Dotted(name, fragments) ==
    IF fragments = <<>> THEN name
    ELSE Dotted(name \o <<".">> \o fragments[1], Tail(fragments))

KeySet(node) == {node.entries[k].k : k \in 1..Len(node.entries)}

IsAscending(L) == \A a, b \in 1..Len(L) : a < b => StrLess(L[a], L[b])

\* the keys of the mapping in alphabetical order
AlphabeticalKeys(node) ==
    CHOOSE L \in [1..Len(node.entries) -> KeySet(node)] :
        IsAscending(L) /\ {L[k] : k \in 1..Len(L)} = KeySet(node)

\* C10: at a mapping with no argument left and no terminal, the next step
\* raises AmbiguousScript with the dotted path of the script and the keys of
\* the mapping in alphabetical order; no prompt is shown, nothing is run, and
\* no step follows the error.
C10_AmbiguousNonInteractive ==
    [][/\ (pc = "resolve" /\ IsMapping(current) /\ remaining = <<>> /\ ~tty) =>
             /\ pc' = "error"
             /\ err'.kind = "AmbiguousScript"
             /\ err'.subject = Dotted(cmd_name, path)
             /\ err'.options = Join(<<",", " ">>, AlphabeticalKeys(current))
             /\ asked' = <<>>
             /\ shell' = <<>>
       /\ err.kind # "AmbiguousScript"]_vars

\* ex d: the keys u, s of ex.d are listed as s, u
C10_Witness ==
    /\ pc = "error"
    /\ err.kind = "AmbiguousScript"
    /\ ~tty
    /\ err.subject = <<"e", "x", ".", "d">>
    /\ err.options = <<"s", ",", " ", "u">>
    /\ shell = <<>>

(***************************************************************************)
(* Properties of the renderer, under SpecRender.  The passes are described *)
(* position by position: a marker starts at a position, covers the run     *)
(* after it, and is replaced as a whole; every other character is copied.  *)
(***************************************************************************)
\* the last position of the longest run of characters of class from b on
RunLast(s, b, class) ==
    CHOOSE e \in b..Len(s) :
        /\ \A k \in b..e : s[k] \in class
        /\ IF e = Len(s) THEN TRUE ELSE s[e + 1] \notin class

\* the character before position p is a dollar
AfterDollar(s, p) == IF p = 1 THEN FALSE ELSE s[p - 1] = "$"

\* ss[1] \o ss[2] \o ...
RECURSIVE Flatten(_)
Flatten(ss) == IF Len(ss) = 0 THEN <<>> ELSE ss[1] \o Flatten(Tail(ss))

\* s with the marker at each position m of ms, which ends at last[m], replaced
\* by put[m], and the other characters kept
Substituted(s, ms, last, put) ==
    Flatten([p \in 1..Len(s) |->
               IF p \in ms THEN put[p]
               ELSE IF \E m \in ms : m < p /\ p <= last[m] THEN <<>>
               ELSE <<s[p]>>])

\* positions of the markers $N that no dollar precedes
RequiredMarkers(s) ==
    {p \in 1..Len(s) - 1 : s[p] = "$" /\ s[p + 1] \in Digits /\ ~AfterDollar(s, p)}

\* the N of the marker $N at p
RequiredNumber(s, p) == ToInt(SubSeq(s, p + 1, RunLast(s, p + 1, Digits)))

\* C4: in the required-positional pass every marker $N, N >= 1, that no dollar
\* precedes is replaced by args[N-1]; when some N exceeds the number of
\* arguments the pass fails with MissingArgument naming such an N.  (Nothing
\* is said of the text a marker $0 leaves.)
C4_RequiredPositional ==
    [][pc = "positional" =>
         LET ms == RequiredMarkers(step)
             missing == {p \in ms : RequiredNumber(step, p) > Len(call_args)}
         IN  IF missing # {}
             THEN /\ pc' = "error"
                  /\ err'.kind = "MissingArgument"
                  /\ \E p \in missing : err'.subject = IntStr(RequiredNumber(step, p))
             ELSE (\A p \in ms : RequiredNumber(step, p) >= 1) =>
                  /\ pc' = "vars"
                  /\ step' = Substituted(step, ms,
                                 [p \in ms |-> RunLast(step, p + 1, Digits)],
                                 [p \in ms |-> call_args[RequiredNumber(step, p)]])
      ]_vars

\* positions of the markers $identifier that no dollar precedes
VariableMarkers(s) ==
    {p \in 1..Len(s) - 1 :
        s[p] = "$" /\ s[p + 1] \in Letters \cup {"_"} /\ ~AfterDollar(s, p)}

\* the identifier of the marker at p
VariableName(s, p) ==
    SubSeq(s, p + 1, RunLast(s, p + 1, Letters \cup Digits \cup {"_"}))

Defined(vd, name) == \E k \in 1..Len(vd.entries) : vd.entries[k].k = name

ValueOf(vd, name) ==
    vd.entries[CHOOSE k \in 1..Len(vd.entries) : vd.entries[k].k = name].v

\* the string form of a value: a string as it is, a number in decimal
StringForm(value) ==
    IF value.t = "str" THEN value.s
    ELSE IF value.n < 10 THEN <<DigitChar(value.n)>>
    ELSE <<DigitChar(value.n \div 10), DigitChar(value.n % 10)>>

\* C5: in the named-variable pass every marker $identifier that no dollar
\* precedes is replaced by the string form of vars[identifier]; when an
\* identifier is not in vars the pass fails with UnknownVariable naming the
\* first such identifier.
C5_NamedVariables ==
    [][pc = "vars" =>
         LET ms == VariableMarkers(step)
             unknown == {p \in ms : ~Defined(vars_dict, VariableName(step, p))}
         IN  IF unknown # {}
             THEN /\ pc' = "error"
                  /\ err'.kind = "UnknownVariable"
                  /\ err'.subject =
                        VariableName(step, CHOOSE p \in unknown : \A q \in unknown : p <= q)
             ELSE /\ pc' = "unescape"
                  /\ step' = Substituted(step, ms,
                                 [p \in ms |-> RunLast(step, p + 1, Letters \cup Digits \cup {"_"})],
                                 [p \in ms |-> StringForm(ValueOf(vars_dict, VariableName(step, p)))])
      ]_vars

\* $a with a = "w" has become w
C5_Witness ==
    /\ pc = "unescape"
    /\ script_steps[i] = <<"a", "$", "a">>
    /\ Defined(vars_dict, <<"a">>)
    /\ ValueOf(vars_dict, <<"a">>).t = "int"
    /\ step = <<"a", "1", "0">>

\* positions of every ?$N
OptionalMarkersAll(s) ==
    {p \in 1..Len(s) - 2 : s[p] = "?" /\ s[p + 1] = "$" /\ s[p + 2] \in Digits}

\* positions of the ?$N that no dollar precedes
OptionalMarkers(s) == {p \in OptionalMarkersAll(s) : ~AfterDollar(s, p)}

\* the N of the marker ?$N at p
OptionalNumber(s, p) == ToInt(SubSeq(s, p + 2, RunLast(s, p + 2, Digits)))

\* args[N-1] when that index exists, else the empty string
OptionalValue(as, n) == IF 1 <= n /\ n <= Len(as) THEN as[n] ELSE <<>>

\* s with the optional markers at ms replaced
OptionalSubstituted(s, ms, as) ==
    Substituted(s, ms, [p \in ms |-> RunLast(s, p + 2, Digits)],
                [p \in ms |-> OptionalValue(as, OptionalNumber(s, p))])

\* every $N of s is escaped, or belongs to a marker of ms whose index is missing
OnlyMissingOptionals(s, ms, as) ==
    \A q \in 1..Len(s) - 1 :
        (s[q] = "$" /\ s[q + 1] \in Digits) =>
            \/ AfterDollar(s, q)
            \/ /\ q - 1 \in ms
               /\ OptionalValue(as, OptionalNumber(s, q - 1)) = <<>>
               /\ ~(1 <= OptionalNumber(s, q - 1) /\ OptionalNumber(s, q - 1) <= Len(as))

\* the template the loop of render_script is at
AtTemplate == i <= Len(script_steps)

\* C6 as stated: every ?$N, whatever precedes it, is replaced by args[N-1] or
\* by the empty string, and a ?$N whose index is missing never causes
\* MissingArgument.
C6_EveryOptionalMarker ==
    /\ pc = "positional" =>
          step = OptionalSubstituted(script_steps[i], OptionalMarkersAll(script_steps[i]),
                                     call_args)
    /\ (AtTemplate /\ OnlyMissingOptionals(script_steps[i],
                                           OptionalMarkersAll(script_steps[i]), call_args))
          => err.kind # "MissingArgument"

\* C6, amended: the optional pass raises nothing and replaces every ?$N that no
\* dollar precedes by args[N-1] when that index exists and by the empty string
\* otherwise; a template whose $N are all escaped or in such markers with a
\* missing index never fails with MissingArgument.
C6_OptionalNeverErrors ==
    /\ pc = "positional" =>
          /\ err = NoError
          /\ step = OptionalSubstituted(script_steps[i], OptionalMarkers(script_steps[i]),
                                        call_args)
    /\ (AtTemplate /\ OnlyMissingOptionals(script_steps[i],
                                           OptionalMarkers(script_steps[i]), call_args))
          => err.kind # "MissingArgument"

\* a?$1 with no argument has been rendered as a
C6_Witness ==
    /\ script_steps = << <<"a", "?", "$", "1">> >>
    /\ call_args = <<>>
    /\ pc = "rendered"
    /\ rendered = << <<"a">> >>

\* every $N and $identifier of s is written with a doubled dollar
OnlyEscaped(s) ==
    \A q \in 1..Len(s) - 1 :
        (s[q] = "$" /\ s[q + 1] \in Digits \cup Letters \cup {"_"}) => AfterDollar(s, q)

\* the first position of the run of dollars that p is in
DollarRunStart(s, p) == CHOOSE b \in 1..p :
    /\ \A k \in b..p : s[k] = "$"
    /\ ~AfterDollar(s, b)

\* s with the pairs of dollars collapsed from the left: of each run of
\* dollars the first, third, fifth ... are kept
Collapsed(s) ==
    Flatten([p \in 1..Len(s) |->
               IF s[p] # "$" THEN <<s[p]>>
               ELSE IF (p - DollarRunStart(s, p)) % 2 = 0 THEN <<"$">>
               ELSE <<>>])

\* C7: a template whose markers are all written with a doubled dollar is left
\* alone by the three substitution passes, whatever the arguments and
\* variables are, raises no error, and comes out with each $$ collapsed to $.
C7_EscapedMarkersSurvive ==
    (AtTemplate /\ OnlyEscaped(script_steps[i])) =>
        /\ err = NoError
        /\ pc \in {"positional", "vars", "unescape"} => step = script_steps[i]
        /\ pc = "strip" => step = Collapsed(script_steps[i])

\* $$1 with an argument, $$a with a variable a: rendered as $1 and $a
C7_Witness ==
    /\ pc = "rendered"
    /\ script_steps \in {<< <<"$", "$", "1">> >>, << <<"$", "$", "a">> >>}
    /\ call_args # <<>>
    /\ Defined(vars_dict, <<"a">>)
    /\ rendered \in {<< <<"$", "1">> >>, << <<"$", "a">> >>}

\* the template is blank or a comment, leading whitespace apart
Dropped(t) ==
    \/ \A k \in 1..Len(t) : t[k] \in Whitespace
    \/ \E p \in 1..Len(t) : t[p] = "#" /\ \A k \in 1..p - 1 : t[k] \in Whitespace

\* s is plain text around one $$$N
IsTripleDollar(s, p) ==
    /\ p + 3 <= Len(s)
    /\ s[p] = "$" /\ s[p + 1] = "$" /\ s[p + 2] = "$"
    /\ s[p + 3] \in Digits
    /\ \A k \in 1..Len(s) :
          (k < p \/ k > RunLast(s, p + 3, Digits)) => s[k] \in {"a", " "}

\* s without the dollar at p
Without(s, p) == SubSeq(s, 1, p - 1) \o SubSeq(s, p + 1, Len(s))

\* C8: a template $$$N is not substituted, also when args[N-1] exists, and
\* comes out of the unescape step as $$N.
C8_TripleDollar ==
    AtTemplate =>
        \A p \in 1..Len(script_steps[i]) :
            (IsTripleDollar(script_steps[i], p) /\ ~Dropped(script_steps[i])) =>
                /\ err = NoError
                /\ pc \in {"positional", "vars", "unescape"} => step = script_steps[i]
                /\ pc = "strip" => step = Without(script_steps[i], p)

\* $$$1 with an argument is rendered as $$1
C8_Witness ==
    /\ pc = "rendered"
    /\ script_steps = << <<"$", "$", "$", "1">> >>
    /\ call_args = << <<"b">> >>
    /\ rendered = << <<"$", "$", "1">> >>

\* the rendered text of a template, before it is trimmed
Text(t, as, vd) ==
    _unescape_dollars(
        _replace_vars(
            _replace_positional(_replace_optional(t, as).out, as).out, vd).out)

\* t with the whitespace at both ends removed
Trimmed(t) ==
    IF \A k \in 1..Len(t) : t[k] \in Whitespace THEN <<>>
    ELSE SubSeq(t, CHOOSE a \in 1..Len(t) :
                     t[a] \notin Whitespace /\ \A k \in 1..a - 1 : t[k] \in Whitespace,
                   CHOOSE b \in 1..Len(t) :
                     t[b] \notin Whitespace /\ \A k \in b + 1..Len(t) : t[k] \in Whitespace)

IsNonEmpty(x) == x # <<>>

\* the commands of the first n templates: one for each template that is not
\* dropped and whose trimmed text is not empty, in the order of the templates
Commands(ts, n, as, vd) ==
    SelectSeq([k \in 1..n |-> IF Dropped(ts[k]) THEN <<>>
                              ELSE Trimmed(Text(ts[k], as, vd))],
              IsNonEmpty)

\* C9: the output holds, in the order of the templates, one command for each
\* template that is neither blank nor a comment and whose rendered text is not
\* empty once trimmed; a blank or comment template raises no error; every
\* command is non-empty and has no whitespace at either end.
C9_OutputShape ==
    /\ \A m \in 1..Len(rendered) :
          /\ rendered[m] # <<>>
          /\ rendered[m][1] \notin Whitespace
          /\ rendered[m][Len(rendered[m])] \notin Whitespace
    /\ pc = "error" => AtTemplate /\ ~Dropped(script_steps[i])
    /\ pc \in {"render", "rendered"} =>
          rendered = Commands(script_steps, i - 1, call_args, vars_dict)
    /\ pc \in {"positional", "vars", "unescape", "strip"} =>
          AtTemplate /\ ~Dropped(script_steps[i])

\* a comment naming a missing argument, a step to trim, a step rendered empty
C9_Witness ==
    /\ pc = "rendered"
    /\ script_steps = << <<" ", "#", "$", "1">>, <<"a", " ">>, <<"?", "$", "1">> >>
    /\ call_args = <<>>
    /\ rendered = << <<"a">> >>

(***************************************************************************)
(* Properties of the errors of the resolver and of the run loop, under     *)
(* Spec.                                                                   *)
(***************************************************************************)
\* C11: at a mapping whose keys do not include the next argument, the next
\* step raises UnknownSubcommand listing the keys of that mapping in
\* alphabetical order; nothing has been run, and no step follows the error.
C11_UnknownSubcommand ==
    [][/\ (/\ pc = "resolve"
           /\ IsMapping(current)
           /\ remaining # <<>>
           /\ Head(remaining) \notin KeySet(current)) =>
             /\ pc' = "error"
             /\ err'.kind = "UnknownSubcommand"
             /\ err'.options = Join(<<",", " ">>, AlphabeticalKeys(current))
             /\ shell' = <<>>
       /\ err.kind # "UnknownSubcommand"]_vars

\* ex d x: x is no key of ex.d, whose keys u, s are listed as s, u
C11_Witness ==
    /\ pc = "error"
    /\ err.kind = "UnknownSubcommand"
    /\ config = Config1
    /\ call.cmd_name = kEx
    /\ call.args = << <<"d">>, <<"x">> >>
    /\ err.options = <<"s", ",", " ", "u">>
    /\ shell = <<>>

\* the walk of a command line alone: one key per mapping, no prompt
RECURSIVE CommandLineWalk(_, _)
CommandLineWalk(node, keys) ==
    IF ~IsMapping(node) THEN [ok |-> TRUE, leaf |-> node, rest |-> keys]
    ELSE IF keys = <<>> THEN [ok |-> FALSE, leaf |-> node, rest |-> keys]
    ELSE IF ~HasKey(node, keys[1]) THEN [ok |-> FALSE, leaf |-> node, rest |-> keys]
    ELSE CommandLineWalk(Lookup(node, keys[1]), Tail(keys))

\* the keys picked at the prompts: the part of path after the arguments
Picks == SubSeq(path, Len(args) + 1, Len(path))

\* the commands handed to the shell so far
ShellCommands == [k \in 1..Len(shell) |-> shell[k].cmd]

\* C12: in a terminal, a mapping reached with no argument left shows one menu,
\* titled with the dotted path and listing the keys of the mapping in
\* alphabetical order, and the step either is cancelled or leaves a key of the
\* mapping as the next argument; one menu is shown per mapping reached that
\* way; the walk ends at the leaf, with the templates and the arguments, that
\* the command line followed by the picks would have reached without a
\* prompt; the call that ends without error has run the commands rendered
\* from that leaf.
C12_InteractivePick ==
    /\ [][(pc = "resolve" /\ IsMapping(current) /\ remaining = <<>> /\ tty) =>
             /\ asked' = Append(asked, [title |-> Dotted(cmd_name, path),
                                        choices |-> AlphabeticalKeys(current)])
             /\ \/ pc' = "error" /\ err'.kind = "Cancelled"
                \/ /\ pc' = "resolve"
                   /\ current' = current
                   /\ path' = path
                   /\ \E key \in KeySet(current) : remaining' = <<key>>]_vars
    /\ [](/\ asked # <<>> => tty
          /\ (Resolved /\ asked # <<>>) =>
                /\ Len(asked) = Len(path) - Len(args)
                /\ \A k \in 1..Len(asked) :
                      LET before == SubSeq(path, 1, Len(args) + k - 1)
                      IN  /\ asked[k].title = Dotted(cmd_name, before)
                          /\ asked[k].choices = AlphabeticalKeys(NodeAt(raw_script, before))
                /\ LET w == CommandLineWalk(raw_script, args \o Picks)
                   IN  /\ w.ok
                       /\ steps_list = LeafTemplates(w.leaf)
                       /\ call_args = w.rest
          /\ (pc = "done" /\ asked # <<>> /\ ~dry_run) =>
                /\ ShellCommands = steps
                /\ steps = rendered
                /\ script_steps = steps_list)

\* ex with no argument: d is picked at the menu of ex, u at the menu of ex.d
C12_Witness ==
    /\ pc = "done"
    /\ config = Config1
    /\ call.cmd_name = kEx
    /\ call.args = <<>>
    /\ Len(asked) = 2
    /\ asked[2].title = <<"e", "x", ".", "d">>
    /\ asked[2].choices = << <<"s">>, <<"u">> >>
    /\ path = << <<"d">>, <<"u">> >>
    /\ ~dry_run
    /\ ShellCommands = << <<"d", " ", "-", "u">> >>

\* C13: a menu that ends without a key picked raises Cancelled; a menu is only
\* shown while no command has been handed to the shell, so a cancelled call
\* has run nothing, and no step follows the error.
C13_Cancelled ==
    /\ [][/\ (asked' # asked /\ remaining' = <<>>) =>
                /\ pc' = "error"
                /\ err'.kind = "Cancelled"
          /\ asked' # asked => shell = <<>> /\ shell' = <<>>
          /\ shell' # shell => asked' = asked
          /\ err.kind # "Cancelled"]_vars
    /\ [](err.kind = "Cancelled" =>
            /\ pc = "error"
            /\ asked # <<>>
            /\ shell = <<>>
            /\ steps = <<>>)

\* ex with no argument: d is picked at the first menu, the second is cancelled
C13_Witness ==
    /\ pc = "error"
    /\ err.kind = "Cancelled"
    /\ config = Config1
    /\ call.cmd_name = kEx
    /\ Len(asked) = 2
    /\ path = << <<"d">> >>
    /\ ~dry_run
    /\ shell = <<>>

\* C14: a script whose walk stands at a mapping with no key ends as a no-op:
\* the call raises no error there, whatever arguments remain.
C14_EmptyMappingIsNoOp ==
    (IsMapping(current) /\ Keys(current) = <<>>) => pc # "error"

\* no $N, ?$N or $identifier is written in s, escaped or not
NoMarkers(s) ==
    \A q \in 1..Len(s) - 1 :
        s[q] = "$" => s[q + 1] \notin Digits \cup Letters \cup {"_"}

\* render_script has returned for a script that is a bare string without markers
BareStringRendered ==
    /\ pc \in {"rendered", "run", "done"}
    /\ current.t = "str"
    /\ NoMarkers(current.s)

\* C15: a leaf written as a bare string that contains no marker resolves to
\* one template, that string, and renders to exactly one command equal to
\* that string.
C15_BareString ==
    BareStringRendered =>
        /\ steps_list = <<current.s>>
        /\ rendered = <<current.s>>

\* C15, amended: a leaf written as a bare string that contains no marker
\* resolves to one template, that string; it renders to no command when the
\* string is blank or a comment, and otherwise to exactly one command: the
\* string with each pair of dollars collapsed and the whitespace at its ends
\* removed.
C15_BareStringTrimmed ==
    BareStringRendered =>
        /\ steps_list = <<current.s>>
        /\ rendered = IF Dropped(current.s) THEN <<>>
                      ELSE IF Trimmed(Collapsed(current.s)) = <<>> THEN <<>>
                      ELSE <<Trimmed(Collapsed(current.s))>>

\* the script " a " is run as the command "a"
C15_Witness ==
    /\ pc = "done"
    /\ raw_script = NStr(<<" ", "a", " ">>)
    /\ steps_list = << <<" ", "a", " ">> >>
    /\ ~dry_run
    /\ ShellCommands = << <<"a">> >>

\* a string, or a sequence of strings only
WellFormedLeaf(x) ==
    \/ x.t = "str"
    \/ x.t = "list" /\ \A k \in 1..Len(x.items) : x.items[k].t = "str"

\* C16: when the walk stands at a value that is no mapping, no string and no
\* sequence of strings only, the next step raises MalformedScript naming the
\* dotted path of the script; nothing has been run, no step follows the error,
\* and the error is raised for such a value only.
C16_MalformedScript ==
    /\ [][/\ (pc = "resolve" /\ ~IsMapping(current) /\ ~WellFormedLeaf(current)) =>
                /\ pc' = "error"
                /\ err'.kind = "MalformedScript"
                /\ err'.subject = Dotted(cmd_name, path)
                /\ shell' = <<>>
          /\ err.kind # "MalformedScript"]_vars
    /\ [](err.kind = "MalformedScript" =>
            /\ ~IsMapping(current)
            /\ ~WellFormedLeaf(current)
            /\ shell = <<>>
            /\ steps = <<>>)

\* run x, where run.x is null
C16_Witness ==
    /\ pc = "error"
    /\ err.kind = "MalformedScript"
    /\ config = Config2
    /\ call.cmd_name = kRun
    /\ call.args = << <<"x">> >>
    /\ current = None
    /\ err.subject = <<"r", "u", "n", ".", "x">>
    /\ shell = <<>>

\* the errors of resolving and rendering
ScriptErrors ==
    {"AmbiguousScript", "Cancelled", "UnknownSubcommand", "MalformedScript",
     "MissingArgument", "UnknownVariable"}

\* the message of e names the script: it holds name, alone or followed by more
CarriesScriptName(e, name) ==
    IF Len(e.subject) < Len(name) THEN FALSE
    ELSE IF Len(e.subject) = Len(name) THEN e.subject = name
    ELSE SubSeq(e.subject, 1, Len(name) + 1) = name \o <<" ">>

\* C17: every error of resolving and rendering names the script being
\* processed by its dotted path, name.key1.key2...
C17_ErrorsCarryScriptName ==
    (pc = "error" /\ err.kind \in ScriptErrors) =>
        CarriesScriptName(err, Dotted(cmd_name, path))

\* C18: the commands handed to the shell are the rendered commands, in their
\* order, one per step of the loop; each is started only after the one before
\* it has exited with status 0; the first command that exits with another
\* status ends the call with an error and no command is run after it; a call
\* that ends without error has run them all.
C18_SequentialAbortOnFailure ==
    /\ [][/\ shell' # shell =>
                /\ pc = "run"
                /\ Len(shell) = j - 1
                /\ shell' = Append(shell, shell'[Len(shell')])
                /\ shell'[Len(shell')].cmd = steps[j]
                /\ \A k \in 1..Len(shell) : shell[k].ok
          /\ err.kind # "CommandFailed"]_vars
    /\ [](/\ Len(shell) <= Len(steps)
          /\ ShellCommands = SubSeq(steps, 1, Len(shell))
          /\ \A k \in 1..Len(shell) - 1 : shell[k].ok
          /\ (shell # <<>> /\ ~shell[Len(shell)].ok) =>
                pc = "error" /\ err.kind = "CommandFailed"
          /\ err.kind = "CommandFailed" =>
                shell # <<>> /\ ~shell[Len(shell)].ok
          /\ (pc = "done" /\ ~dry_run) =>
                ShellCommands = steps /\ \A k \in 1..Len(shell) : shell[k].ok)

\* s x: the first of the two commands fails and the second is not run
C18_Witness ==
    /\ pc = "error"
    /\ err.kind = "CommandFailed"
    /\ config = Config2
    /\ call.cmd_name = <<"s">>
    /\ steps = << <<"a", " ", "x">>, <<"b">> >>
    /\ ShellCommands = << <<"a", " ", "x">> >>

\* the records "Executing step" of the log
IsStepRecord(r) == r.msg = "Executing step"

\* the commands logged so far
LoggedSteps ==
    [k \in 1..Len(SelectSeq(log, IsStepRecord)) |-> SelectSeq(log, IsStepRecord)[k].text]

\* C19: in dry-run mode no command is handed to the shell at any point of the
\* call, so no command fails; the rendered commands are logged, in their
\* order, each followed by the record that its execution is skipped, and the
\* call that ends without error has logged them all.
C19_DryRunRunsNothing ==
    dry_run =>
        /\ shell = <<>>
        /\ err.kind # "CommandFailed"
        /\ pc = "run" => LoggedSteps = SubSeq(steps, 1, j - 1)
        /\ pc = "done" => LoggedSteps = steps
        /\ \A k \in 1..Len(log) :
              IsStepRecord(log[k]) =>
                  /\ k < Len(log)
                  /\ log[k + 1].msg = "Dry-run enabled; skipping execution"

\* s x in dry-run mode: two commands logged, none run
C19_Witness ==
    /\ dry_run
    /\ pc = "done"
    /\ config = Config2
    /\ call.cmd_name = <<"s">>
    /\ steps = << <<"a", " ", "x">>, <<"b">> >>
    /\ LoggedSteps = steps
    /\ shell = <<>>

\* the environment e maps name to the string value
EnvHolds(e, name, value) ==
    \E q \in 1..Len(e.map.entries) :
        e.map.entries[q].k = name /\ e.map.entries[q].v = NStr(value)

\* MCL_ARG_<a>
ArgName(a) == <<"M", "C", "L", "_", "A", "R", "G", "_">> \o StringForm(NInt(a))

\* the environment e holds MCL_ARG_a for each remaining argument, with the
\* value that $a substitutes
ArgsExported(e) ==
    \A a \in 1..Len(call_args) :
        /\ EnvHolds(e, ArgName(a), call_args[a])
        /\ _replace_positional(<<"$">> \o StringForm(NInt(a)), call_args) = Ok(call_args[a])

\* C20: with share_vars every command run is given an environment that holds
\* each entry of vars, the name mapped to the string form of the value, and
\* MCL_ARG_a for each remaining argument a (counted from 1, the value that $a
\* substitutes); without share_vars no environment is given.
C20_EveryVarExported ==
    \A c \in 1..Len(shell) :
        IF share_vars
        THEN /\ shell[c].env.set
             /\ \A q \in 1..Len(vars_dict.entries) :
                   EnvHolds(shell[c].env, vars_dict.entries[q].k,
                            StringForm(vars_dict.entries[q].v))
             /\ ArgsExported(shell[c].env)
        ELSE ~shell[c].env.set

\* C20, amended: as above, for each entry of vars whose name is not the
\* MCL_ARG_a of a remaining argument; such a name holds the argument.
C20_SharedEnvironment ==
    \A c \in 1..Len(shell) :
        IF share_vars
        THEN /\ shell[c].env.set
             /\ \A q \in 1..Len(vars_dict.entries) :
                   (\A a \in 1..Len(call_args) : vars_dict.entries[q].k # ArgName(a)) =>
                       EnvHolds(shell[c].env, vars_dict.entries[q].k,
                                StringForm(vars_dict.entries[q].v))
             /\ ArgsExported(shell[c].env)
        ELSE ~shell[c].env.set

\* ex s x with share_vars: v and k are exported, MCL_ARG_1 is the argument x
C20_Witness ==
    /\ share_vars
    /\ config = Config1
    /\ call.cmd_name = kEx
    /\ call_args = << <<"x">> >>
    /\ Len(shell) = 1
    /\ EnvHolds(shell[1].env, <<"v">>, <<"1">>)
    /\ EnvHolds(shell[1].env, <<"k">>, <<"1", "0">>)
    /\ EnvHolds(shell[1].env, ArgName(1), <<"x">>)

(***************************************************************************)
(* Properties of execute as a whole, under Spec.                           *)
(***************************************************************************)
\* C21: no step of the call changes the caller's argument list or the
\* configuration; the script walked is the entry of the configuration and the
\* variable table used is the one the configuration holds; keys are consumed
\* and the name is put back on lists of the call's own, so the caller's list
\* is whole while the call's lists shrink and grow.
C21_InputsUnmodified ==
    /\ [][call' = call /\ config' = config]_vars
    /\ [](/\ pc \notin {"execute", "error"} =>
                raw_script = Get(Get(config, kScripts), cmd_name)
          /\ IsMapping(vars_dict) => vars_dict = ConfigVars(config)
          /\ \/ args = call.args
             \/ args = <<call.cmd_name>> \o call.args)

\* d u, found under "run": the call's list grew by the name and was consumed
\* whole, the caller's list still holds u
C21_Witness ==
    /\ pc = "done"
    /\ config = Config1
    /\ call = [cmd_name |-> <<"d">>, args |-> << <<"u">> >>]
    /\ args = << <<"d">>, <<"u">> >>
    /\ path = << <<"d">>, <<"u">> >>
    /\ remaining = <<>>
    /\ shell # <<>>

(***************************************************************************)
(* Properties of load_config, under SpecConfig.                            *)
(***************************************************************************)
\* the object a file holds: an absent file counts as the empty object
FileData(file) == IF file.exists THEN file.data ELSE NMap(<<>>)

\* the value of key in the mapping m
ValueAt(m, key) == (CHOOSE e \in {m.entries[k] : k \in 1..Len(m.entries)} : e.k = key).v

\* r holds, at each key of keys, the merge of l over g: the value of l when
\* only l has the key or when the two values are not both objects, the value
\* of g when only g has it, and the merge of the two objects otherwise
RECURSIVE MergedAt(_, _, _, _)
MergedAt(r, g, l, keys) ==
    \A key \in keys :
        /\ key \in KeySet(r)
        /\ IF key \in KeySet(g) /\ key \in KeySet(l)
           THEN IF IsMapping(ValueAt(g, key)) /\ IsMapping(ValueAt(l, key))
                THEN /\ IsMapping(ValueAt(r, key))
                     /\ KeySet(ValueAt(r, key)) =
                            KeySet(ValueAt(g, key)) \cup KeySet(ValueAt(l, key))
                     /\ MergedAt(ValueAt(r, key), ValueAt(g, key), ValueAt(l, key),
                                 KeySet(ValueAt(r, key)))
                ELSE ValueAt(r, key) = ValueAt(l, key)
           ELSE IF key \in KeySet(l) THEN ValueAt(r, key) = ValueAt(l, key)
           ELSE ValueAt(r, key) = ValueAt(g, key)

KeyPaths(tree, n) ==
    {p \in UNION {[1..len -> {<<"a">>, <<"b">>}] : len \in 1..n} : ValidPath(tree, p)}

\* the key sequences that lead to a string, a sequence or an empty mapping
ListedKeyPaths(tree, n) ==
    {p \in KeyPaths(tree, n) :
        \/ NodeAt(tree, p).t \in {"str", "list"}
        \/ IsMapping(NodeAt(tree, p)) /\ KeySet(NodeAt(tree, p)) = {}}

\* the keys of p separated by single spaces
RECURSIVE Spaced(_)
Spaced(p) == IF Len(p) = 1 THEN p[1] ELSE p[1] \o <<" ">> \o Spaced(Tail(p))

\* C23: the list returned is in ascending order and holds exactly one path,
\* the keys separated by spaces, for each string, sequence and empty mapping
\* of the tree; a number or another unsupported value is left out, and no
\* error is raised.
C23_ListedPaths ==
    /\ err = NoError
    /\ pc = "listed" =>
          /\ \A a, b \in 1..Len(paths) : a < b => StrLess(paths[a], paths[b])
          /\ {paths[k] : k \in 1..Len(paths)} =
                 {Spaced(p) : p \in ListedKeyPaths(script_tree, MaxDepth + 1)}
          /\ Len(paths) = Cardinality(ListedKeyPaths(script_tree, MaxDepth + 1))

\* {"b": {"b": {}, "a": 7}, "a": {"a": [..]}} lists "a a" and "b b"
C23_Witness ==
    /\ pc = "listed"
    /\ Keys(script_tree) = << <<"b">>, <<"a">> >>
    /\ ValidPath(script_tree, << <<"b">>, <<"b">> >>)
    /\ ValidPath(script_tree, << <<"b">>, <<"a">> >>)
    /\ NodeAt(script_tree, << <<"b">>, <<"b">> >>) = NMap(<<>>)
    /\ NodeAt(script_tree, << <<"b">>, <<"a">> >>) = NInt(7)
    /\ NodeAt(script_tree, << <<"a">> >>).t = "map"
    /\ paths = << <<"a", " ", "a">>, <<"b", " ", "b">> >>

(***************************************************************************)
(* Further properties of the renderer, under SpecRender.                   *)
(***************************************************************************)
\* C24: the required-positional pass replaces the markers $N with N >= 1 and
\* nothing else: a marker $0 is still in the text when the pass has ended,
\* whatever the arguments.
C24_DollarZeroKept ==
    [][(pc = "positional" /\ pc' = "vars") =>
         LET ms == {p \in RequiredMarkers(step) : RequiredNumber(step, p) >= 1}
         IN  step' = Substituted(step, ms,
                         [p \in ms |-> RunLast(step, p + 1, Digits)],
                         [p \in ms |-> call_args[RequiredNumber(step, p)]])
      ]_vars

\* C25: a call of render_script that does not return fails with a ValueError
\* for a missing argument or for an unknown variable, and with nothing else.
C25_OnlyDocumentedErrors ==
    pc = "error" =>
        /\ err.type = "ValueError"
        /\ err.kind \in {"MissingArgument", "UnknownVariable"}

\* the templates that are one marker and nothing else
OneMarker == {<<"$", "1">>, <<"?", "$", "1">>, <<"$", "a">>, <<"$", "a", "a">>}

\* the value that the marker t stands for
MarkerValue(t) ==
    IF t \in {<<"$", "1">>, <<"?", "$", "1">>} THEN call_args[1]
    ELSE StringForm(ValueOf(vars_dict, Tail(t)))

\* the marker t has a value
HasValue(t) ==
    IF t \in {<<"$", "1">>, <<"?", "$", "1">>} THEN call_args # <<>>
    ELSE Defined(vars_dict, Tail(t))

\* C26: the text of a value is not read again as a marker or an escape: an
\* unknown variable reported is the identifier of a marker of the template,
\* a missing argument reported is the number of a marker of the template, and
\* a template that is one marker renders to the value of the marker as it is.
C26_ValuesInsertedLiterally ==
    /\ (pc = "error" /\ err.kind = "UnknownVariable") =>
          \E p \in VariableMarkers(script_steps[i]) :
              VariableName(script_steps[i], p) = err.subject
    /\ (pc = "error" /\ err.kind = "MissingArgument") =>
          \E p \in RequiredMarkers(script_steps[i]) :
              IntStr(RequiredNumber(script_steps[i], p)) = err.subject
    /\ (/\ pc = "rendered"
        /\ Len(script_steps) = 1
        /\ script_steps[1] \in OneMarker
        /\ HasValue(script_steps[1])) =>
          rendered = <<MarkerValue(script_steps[1])>>

(***************************************************************************)
(* Properties of execute that compare calls, under Spec.  The outcome of   *)
(* a call is written as a function of the configuration, the name and the  *)
(* arguments alone: what holds of it holds with and without dry_run.       *)
(***************************************************************************)
\* the commands of the templates ts from the k-th on, after acc, or the error
\* of the first template that fails
RECURSIVE RenderedFrom(_, _, _, _, _)
RenderedFrom(ts, as, vd, k, acc) ==
    IF k > Len(ts) THEN [err |-> NoError, steps |-> acc]
    ELSE IF IsSkipped(ts[k]) THEN RenderedFrom(ts, as, vd, k + 1, acc)
    ELSE LET p == _replace_positional(_replace_optional(ts[k], as).out, as)
         IN  IF ~p.ok THEN [err |-> p.err, steps |-> <<>>]
             ELSE LET v == _replace_vars(p.out, vd)
                  IN  IF ~v.ok THEN [err |-> v.err, steps |-> <<>>]
                      ELSE LET final == Strip(_unescape_dollars(v.out))
                           IN  RenderedFrom(ts, as, vd, k + 1,
                                            IF final = <<>> THEN acc
                                            ELSE Append(acc, final))

\* the walk from node with the arguments as and no terminal, then the
\* rendering of its leaf with the variables vd
RECURSIVE WalkedFrom(_, _, _, _, _)
WalkedFrom(node, name, as, taken, vd) ==
    IF IsMapping(node)
    THEN IF as = <<>>
         THEN [err |-> ValueError("AmbiguousScript", _format_path(name, taken),
                                  Available(node)),
               steps |-> <<>>]
         ELSE IF ~HasKey(node, as[1])
         THEN [err |-> ValueError("UnknownSubcommand",
                                  _format_path(name, taken) \o <<" ">> \o as[1],
                                  Available(node)),
               steps |-> <<>>]
         ELSE WalkedFrom(Lookup(node, as[1]), name, Tail(as), Append(taken, as[1]), vd)
    ELSE IF ~_coerce_steps(node, name, taken).ok
    THEN [err |-> _coerce_steps(node, name, taken).err, steps |-> <<>>]
    ELSE IF ~IsMapping(vd)
    THEN [err |-> ValueError("VarsNotObject", <<>>, <<>>), steps |-> <<>>]
    ELSE RenderedFrom(_coerce_steps(node, name, taken).out, as, vd, 1, <<>>)

\* the error, or the commands, of execute(cfg, name, as, ...) with no terminal
Outcome(cfg, name, as) ==
    IF ~IsMapping(Get(cfg, kScripts))
    THEN [err |-> ValueError("NoScriptsObject", <<>>, <<>>), steps |-> <<>>]
    ELSE IF Get(Get(cfg, kScripts), name) # None
    THEN WalkedFrom(Get(Get(cfg, kScripts), name), name, as, <<>>, ConfigVars(cfg))
    ELSE IF InRunNamespace(Get(cfg, kScripts), name)
    THEN WalkedFrom(Get(Get(cfg, kScripts), kRun), kRun, <<name>> \o as, <<>>,
                    ConfigVars(cfg))
    ELSE [err |-> ValueError("NotDefined", name, <<>>), steps |-> <<>>]

\* the outcome of the call, the keys picked at the menus counted as arguments
CallOutcome == Outcome(config, call.cmd_name, call.args \o Picks)

\* C27: a call ends with the error, or with the list of commands, that the
\* configuration, the name and the arguments determine, dry_run or not: an
\* error of resolving or rendering is that error in both modes; a call that
\* returns has logged that list of commands in dry-run mode and has handed
\* that list to the shell otherwise, in the same order; a call that a failing
\* command ends has handed a prefix of that list to the shell.
C27_DryRunEquivalence ==
    /\ (pc = "error" /\ err.kind \notin {"CommandFailed", "Cancelled"}) =>
          err = CallOutcome.err
    /\ pc = "done" =>
          /\ CallOutcome.err = NoError
          /\ LoggedSteps = CallOutcome.steps
          /\ IF dry_run THEN shell = <<>> ELSE ShellCommands = CallOutcome.steps
    /\ (pc = "error" /\ err.kind = "CommandFailed") =>
          /\ ~dry_run
          /\ CallOutcome.err = NoError
          /\ ShellCommands = SubSeq(CallOutcome.steps, 1, Len(shell))

\* s x in dry-run mode logs the two commands that s x hands to the shell
C27_Witness ==
    /\ pc = "done"
    /\ dry_run
    /\ config = Config2
    /\ call = [cmd_name |-> <<"s">>, args |-> << <<"x">> >>]
    /\ LoggedSteps = << <<"a", " ", "x">>, <<"b">> >>
    /\ CallOutcome.steps = LoggedSteps

\* the words of the call: the script name, then the arguments
CallWords == <<call.cmd_name>> \o call.args

\* the call spells a path that list_script_paths returns for the scripts of
\* the configuration
CallIsListed ==
    /\ IsMapping(Get(config, kScripts))
    /\ \E n \in DOMAIN list_script_paths(Get(config, kScripts)) :
          list_script_paths(Get(config, kScripts))[n] = Spaced(CallWords)

\* C28: with no terminal, a call whose name and arguments spell a path that
\* list_script_paths returns for the scripts of the configuration does not
\* fail with AmbiguousScript, UnknownSubcommand or MalformedScript.
C28_ListedPathsRunnable ==
    (pc = "error" /\ ~tty /\ CallIsListed) =>
        err.kind \notin {"AmbiguousScript", "UnknownSubcommand", "MalformedScript"}

(***************************************************************************)
(* Properties of the loop of _resolve_script_definition inside execute,    *)
(* under Spec.                                                             *)
(***************************************************************************)

\* the number of mappings on the longest way down from node
RECURSIVE DepthOf(_)
DepthOf(node) ==
    IF ~IsMapping(node) THEN 0
    ELSE 1 + LET ds == {DepthOf(node.entries[k].v) : k \in 1..Len(node.entries)}
             IN  IF ds = {} THEN 0 ELSE CHOOSE d \in ds : \A e \in ds : e <= d

\* the arguments consumed so far, when path holds them
ConsumedArgs == SubSeq(args, 1, IF Len(path) <= Len(args) THEN Len(path) ELSE Len(args))

\* C29: at the head of every iteration of the walk, path is the sequence of
\* keys consumed (the arguments first, then the keys picked at the menus),
\* current is raw_script indexed by path, and len(path) + len(remaining) is
\* the number of arguments plus the number of menus answered; an iteration
\* that does not fail appends its key to path and moves current to that
\* key's value, one level down; the iterations, a failing one counted, are
\* at most as many as the depth of raw_script; and a menu is shown only when
\* nothing remains and leaves one key to consume, so no level shows two.
C29_WalkInvariant ==
    /\ [](pc = "resolve" =>
            /\ ValidPath(raw_script, path)
            /\ current = NodeAt(raw_script, path)
            /\ SubSeq(path, 1, Len(ConsumedArgs)) = ConsumedArgs
            /\ Len(path) < Len(args) => remaining = SubSeq(args, Len(path) + 1, Len(args))
            /\ Len(path) + Len(remaining) = Len(args) + Len(asked)
            /\ Len(path) + (IF IsMapping(current) THEN 1 ELSE 0) <= DepthOf(raw_script)
            /\ Len(asked) <= Len(path) + 1
            /\ asked # <<>> => Len(remaining) <= 1)
    /\ [][(pc = "resolve" /\ pc' = "resolve" /\ path' # path) =>
            /\ remaining # <<>>
            /\ path' = Append(path, Head(remaining))
            /\ remaining' = Tail(remaining)
            /\ HasKey(current, Head(remaining))
            /\ current' = Lookup(current, Head(remaining))
            /\ asked' = asked
         ]_vars
    /\ [][(pc = "resolve" /\ asked' # asked) =>
            /\ remaining = <<>>
            /\ Len(asked') = Len(asked) + 1
            /\ path' = path /\ current' = current
            /\ pc' = "resolve" => Len(remaining') = 1 /\ HasKey(current, remaining'[1])
         ]_vars
    /\ [][(pc = "resolve" /\ pc' = "resolve") => (path' # path \/ asked' # asked)]_vars

\* in a terminal, example d was walked two levels down: d from the command
\* line, u from the one menu
C29_Witness ==
    /\ pc = "resolve"
    /\ config = Config1
    /\ call = [cmd_name |-> kEx, args |-> << <<"d">> >>]
    /\ path = << <<"d">>, <<"u">> >>
    /\ Len(asked) = 1
    /\ remaining = <<>>
    /\ current = NList(<<NStr(<<"d", " ", "-", "u">>)>>)

(***************************************************************************)
(* Properties of the lookup at the head of execute, under Spec.            *)
(***************************************************************************)
\* the caller's name is a key of the script collection
DirectCase ==
    /\ IsMapping(Get(config, kScripts))
    /\ HasKey(Get(config, kScripts), call.cmd_name)

\* C30: a name that is a key of the script collection is resolved from that
\* entry under its own name with the caller's arguments, whether or not the
\* "run" mapping holds the name too, and is never reported as not defined; a
\* name that is neither a key of the collection nor a key of a "run" mapping
\* fails with the 'not defined' error, which runs and logs nothing.
C30_DirectPrecedence ==
    /\ (pc # "execute" /\ DirectCase) =>
          /\ cmd_name = call.cmd_name
          /\ args = call.args
          /\ raw_script = Lookup(Get(config, kScripts), call.cmd_name)
          /\ err.kind # "NotDefined"
    /\ (pc # "execute" /\ IsMapping(Get(config, kScripts))
          /\ ~DirectCase /\ ~FallbackCase) =>
          /\ pc = "error"
          /\ err.kind = "NotDefined"
          /\ err.subject = call.cmd_name
    /\ err.kind = "NotDefined" => shell = <<>> /\ log = <<>> /\ asked = <<>>

====
